---- MODULE Spec2Model ----
(***************************************************************************)
(* A model of the lovejs binding layer (src/src/core/JSEngine.hpp): the    *)
(* process-wide engine state and its lifecycle, the module tree and its    *)
(* callable wrappers, and the wrapper's call protocol with the marshalling *)
(* rules it uses; of the payload embedded in the executable                *)
(* (src/src/core/Embed.hpp); and of the frame loop                         *)
(* (src/src/core/GameLoop.hpp).                                            *)
(*                                                                         *)
(* Eleven specifications are defined.  Spec drives the engine's public     *)
(* operations (initialize, global, module, func, value, runFile,           *)
(* runBytecode, callGlobal, cleanup) in every order.  CallSpec applies     *)
(* FuncWrap::call to every wrapper signature and argument list of a        *)
(* bounded domain.  CompileSpec runs compile, one statement at a time,     *)
(* beside the engine's operations.  InstallSpec registers nested native    *)
(* modules and evaluates scripts that import by name.  SinkSpec evaluates  *)
(* failing scripts under each error callback.  ExportSpec runs precompiled *)
(* units with every set of exports.  ConvSpec applies the conversions      *)
(* JSConv<T> to values drawn in the initial state.  StubSpec compiles      *)
(* scripts that import native modules.  RegSpec follows the registration   *)
(* calls of a host that goes on registering after the global install.      *)
(* EmbedSpec embeds payloads into executables drawn in the initial state   *)
(* and reads them back.  LoopSpec runs setup and the callbacks of the      *)
(* frame loop over every main script of a bounded domain.                  *)
(*                                                                         *)
(* The embedded runtime (QuickJS) is an external library.  What the model  *)
(* needs of it is written as the operators named JS_...; they follow the   *)
(* library's documented behaviour and are kept apart from the operators    *)
(* that model the repository's own code.                                   *)
(***************************************************************************)
EXTENDS Integers, Sequences, FiniteSets, TLC

VARIABLES
    \* JSEngine's static members (JSEngine.hpp:611-618)
    rt_,             \* the shared runtime: NULLPTR or the runtime's identity
    ctx_,            \* the shared context: NULLPTR or the context's identity
    global_,         \* the root module tree; NullTree when the unique_ptr is empty
    installed_,      \* the global namespace has been populated
    modData_,        \* module-definition handle -> module node
    jsModuleCache_,  \* script module name -> compiled module handle
    cleanedUp_,      \* cleanup has run
    errorCallback_,  \* the error callback: NoCallback when the std::function is empty
    \* the state held inside the shared runtime
    handles,         \* wrapper identities held (as opaque pointers) by runtime functions
    loaded,          \* names in the context's registry of loaded modules
    globalObj,       \* the global object's properties: name -> kind
    childObjs,       \* the objects installed below the global object: path -> properties
    moduleExports,   \* native module name -> the exports its definition declared and bound
    \* observation variables: what a test harness around the engine would record
    rtCreated,       \* number of JS_NewRuntime calls made for the shared runtime
    ctxCreated,      \* number of JS_NewContext calls made for the shared context
    rootCreated,     \* number of root module nodes constructed
    wrappersMade,    \* number of FuncWrap objects constructed (also the last identity)
    installWalks,    \* number of installToObject walks over the root (saturating)
    passedCheck,     \* some runFile/runBytecode call has passed the lifecycle check
    reachedEval,     \* some runFile/runBytecode call has reached ensureInstalled
    lastOp,          \* the last call other than a registration: name, result, runtime use
    cleanupTrace,    \* the steps of the last effective cleanup(), each with the state after it
    crashed,         \* the process has faulted (undefined behaviour taken as a fault)
    \* the state of CallSpec
    lastCall,        \* the last FuncWrap::call: its inputs and its outcome
    \* the state of CompileSpec
    comp             \* the compile call in progress: its position, its locals, its result

engineVars == <<rt_, ctx_, global_, installed_, modData_, jsModuleCache_, cleanedUp_,
                errorCallback_>>
runtimeVars == <<handles, loaded, globalObj, childObjs, moduleExports>>
ghostVars == <<rtCreated, ctxCreated, rootCreated, wrappersMade, installWalks,
               passedCheck, reachedEval, lastOp, cleanupTrace, crashed>>
vars == <<engineVars, runtimeVars, ghostVars, lastCall, comp>>

----------------------------------------------------------------------------
(* Bounds of the model.                                                    *)

\* Shared runtimes constructed in one behaviour.
MaxRuntimes == 2
\* func() registrations in one behaviour.
MaxWrappers == 2
\* installWalks saturates here.
WalkCap == 2

\* The null pointer.
NULLPTR == 0

----------------------------------------------------------------------------
(* The module tree (class JSModule).  A tree is a function from the paths  *)
(* of its nodes to the nodes; a node holds funcs_ (name -> wrapper         *)
(* identity, 0 when absent) and values_ (name -> captured constant, 0 when *)
(* absent); children_ is the set of paths one name longer.                 *)

Root == << >>
ModuleNames == {"math"}
\* The names a top-level child of the root is registered under in some behaviour.
TopLevelNames == {"math", "util"}
\* The nodes func() is called on (a function of a child module is registered
\* under InstallSpec).
FuncPaths == {Root}
\* The nodes value() is called on.
ValuePaths == {Root}
FuncNames == {"f"}
ValueNames == {"K"}
ValueConsts == {1}

EmptyNode == [funcs |-> [n \in FuncNames |-> 0], values |-> [n \in ValueNames |-> 0]]

\* An empty std::unique_ptr<JSModule>.
NullTree == [p \in {} |-> EmptyNode]

IsNull(tree) == DOMAIN tree = {}

IsPrefix(p, q) == Len(p) <= Len(q) /\ SubSeq(q, 1, Len(p)) = p

\* JSEngine::global(): the root, created on first use.
global(tree) == IF IsNull(tree) THEN [p \in {Root} |-> EmptyNode] ELSE tree

\* JSModule::module(name) on the node at path parent: the child is created only
\* when children_[name] is empty.
\* A variant that makes a new child on every call; the child that was there goes
\* with everything below it.
module_Always(tree, parent, name) ==
    [p \in {q \in DOMAIN tree : ~IsPrefix(Append(parent, name), q)} \cup {Append(parent, name)}
        |-> IF p = Append(parent, name) THEN EmptyNode ELSE tree[p]]

module(tree, parent, name) ==
    LET child == Append(parent, name)
    IN IF child \in DOMAIN tree
       THEN tree
       ELSE [p \in DOMAIN tree \cup {child} |-> IF p = child THEN EmptyNode ELSE tree[p]]

\* The chain global().module(p[1])...: every node on the path to p exists afterwards.
RECURSIVE nodeAt(_, _, _)
nodeAt(tree, p, k) ==
    IF k > Len(p) THEN tree
    ELSE nodeAt(module(tree, SubSeq(p, 1, k - 1), p[k]), p, k + 1)

\* JSModule::func(name, f): funcs_[name] is assigned a new FuncWrap; the unique_ptr
\* that was there, if any, destroys its wrapper.
func(tree, p, name, w) == [tree EXCEPT ![p].funcs[name] = w]

\* JSModule::value(name, v): values_[name] is assigned a producer that captured v.
\* A variant whose producer holds a reference to the caller's variable: what it
\* will produce (written -1) is not fixed by the call.
value_ByReference(tree, p, name, c) == [tree EXCEPT ![p].values[name] = -1]

value(tree, p, name, c) == [tree EXCEPT ![p].values[name] = c]

\* The wrappers the tree owns, in the subtree at p and in the whole tree.
WrappersUnder(tree, p) ==
    {tree[q].funcs[n] : q \in {r \in DOMAIN tree : IsPrefix(p, r)}, n \in FuncNames} \ {0}
WrappersIn(tree) == IF IsNull(tree) THEN {} ELSE WrappersUnder(tree, Root)

----------------------------------------------------------------------------
(* The engine and the state of its runtime, gathered in one record so that *)
(* the statements of a handler can be applied one after the other.         *)

Cur ==
    [rt |-> rt_, ctx |-> ctx_, root |-> global_, installed |-> installed_,
     modData |-> modData_, cache |-> jsModuleCache_, cleanedUp |-> cleanedUp_,
     errorCallback |-> errorCallback_,
     handles |-> handles, loaded |-> loaded, gobj |-> globalObj,
     kids |-> childObjs, exports |-> moduleExports,
     walks |-> installWalks, crashed |-> crashed,
     sunk |-> 0, delivered |-> << >>, unwinding |-> FALSE,
     calls |-> << >>, created |-> {}, freed |-> << >>]

Becomes(e) ==
    /\ rt_' = e.rt
    /\ ctx_' = e.ctx
    /\ global_' = e.root
    /\ installed_' = e.installed
    /\ modData_' = e.modData
    /\ jsModuleCache_' = e.cache
    /\ cleanedUp_' = e.cleanedUp
    /\ errorCallback_' = e.errorCallback
    /\ handles' = e.handles
    /\ loaded' = e.loaded
    /\ globalObj' = e.gobj
    /\ childObjs' = e.kids
    /\ moduleExports' = e.exports
    /\ installWalks' = e.walks
    /\ crashed' = e.crashed

\* The global object of a fresh context: none of the names the model follows.
ScriptGlobals == {"load"}
\* The names the modules of the model export.
ExportNames == {"load", "update", "f"}
\* The callbacks of the main script the frame loop dispatches (of the eight the
\* loader copies to the global object).
CallbackNames == {"load", "update", "draw", "keypressed"}
GlobalNames ==
    FuncNames \cup ValueNames \cup TopLevelNames \cup ScriptGlobals \cup ExportNames
    \cup CallbackNames
EmptyGlobalObj == [n \in GlobalNames |-> "absent"]

\* Its properties of a given kind.
Callable(gobj, name) == gobj[name] \in {"native", "script_ok", "script_throw"}

\* The objects the engine creates for child modules, and a native module's
\* namespace.  An object is a function from property names to properties; a
\* property is absent, a function that holds a wrapper's identity, a value
\* made by a producer, or a further object (found one name down the path).
ChildNames == TopLevelNames \cup {"color"}
PropNames == FuncNames \cup ValueNames \cup ChildNames
Prop(kind, w, c) == [kind |-> kind, w |-> w, c |-> c]
AbsentProp == Prop("absent", 0, 0)
ObjectProp == Prop("object", 0, 0)
NoObjects == [q \in {} |-> [n \in PropNames |-> AbsentProp]]

\* A native module the context has not loaded.
NotLoaded == [state |-> "none", declared |-> {}, graph |-> NoObjects]
NoExports == [m \in TopLevelNames |-> NotLoaded]

\* JSEngine::createJSFunction: a function object whose opaque pointer is the wrapper.
createJSFunction(w) == Prop("function", w, 0)
\* A registered value-producer called on the context.
creator(c) == Prop("value", 0, c)

----------------------------------------------------------------------------
(* JSEngine::initialize.                                                   *)

\* if (rt_) return;
\* A variant of the guard of initialize that never finds a runtime.
initialize_done_Never(e) == FALSE

initialize_done(e) == e.rt # NULLPTR

\* rt_ = JS_NewRuntime(); ctx_ = JS_NewContext(rt_); the class and the module
\* loader are registered on the new runtime.  id is the new runtime's identity.
initialize(e, id) ==
    IF initialize_done(e) THEN e
    ELSE [e EXCEPT !.rt = id, !.ctx = id, !.gobj = EmptyGlobalObj,
                   !.loaded = {}, !.handles = {},
                   !.kids = NoObjects, !.exports = NoExports]

----------------------------------------------------------------------------
(* JSEngine::cleanup, statement by statement.  cleanup_run gives the steps *)
(* that were executed, in order, each with the state it left.              *)

\* if (!ctx_ && !rt_) return;
cleanup_done(e) == e.ctx = NULLPTR /\ e.rt = NULLPTR

\* cleanedUp_ = true; modData_.clear(); jsModuleCache_.clear();
cleanup_clearMaps(e) == [e EXCEPT !.cleanedUp = TRUE, !.modData = {}, !.cache = {}]

\* if (ctx_ && rt_) JS_RunGC(rt_): nothing the model follows is collected, the
\* global object and the registry keep their references until the context goes.
cleanup_gc(e) == e

\* JS_FreeContext(ctx_); ctx_ = nullptr: the global object and the registry go.
cleanup_freeContext(e) ==
    [e EXCEPT !.ctx = NULLPTR, !.gobj = EmptyGlobalObj, !.loaded = {},
              !.kids = NoObjects, !.exports = NoExports]

\* JS_FreeRuntime(rt_); rt_ = nullptr: every object of the runtime is freed,
\* and with it every opaque pointer to a wrapper.
cleanup_freeRuntime(e) == [e EXCEPT !.rt = NULLPTR, !.handles = {}]

\* global_.reset(): the tree and every wrapper it owns are destroyed.
cleanup_resetRoot(e) == [e EXCEPT !.root = NullTree]

Step(name, e) == [step |-> name, eng |-> e]
LastEng(tr, e) == IF tr = << >> THEN e ELSE tr[Len(tr)].eng

\* A variant of cleanup that resets the registration root before it frees the
\* context and the runtime.
cleanup_run_RootFirst(e) ==
    LET t1 == << Step("clearMaps", cleanup_clearMaps(e)) >>
        e1 == LastEng(t1, e)
        t2 == Append(t1, Step("resetRoot", cleanup_resetRoot(e1)))
        e2 == LastEng(t2, e)
        t3 == IF e2.ctx # NULLPTR
              THEN Append(t2, Step("freeContext", cleanup_freeContext(e2))) ELSE t2
        e3 == LastEng(t3, e)
    IN IF e3.rt # NULLPTR
       THEN Append(t3, Step("freeRuntime", cleanup_freeRuntime(e3))) ELSE t3

cleanup_run(e) ==
    LET t1 == << Step("clearMaps", cleanup_clearMaps(e)) >>
        e1 == LastEng(t1, e)
        t2 == IF e1.ctx # NULLPTR /\ e1.rt # NULLPTR
              THEN Append(t1, Step("gc", cleanup_gc(e1))) ELSE t1
        e2 == LastEng(t2, e)
        t3 == IF e2.ctx # NULLPTR
              THEN Append(t2, Step("freeContext", cleanup_freeContext(e2))) ELSE t2
        e3 == LastEng(t3, e)
        t4 == IF e3.rt # NULLPTR
              THEN Append(t3, Step("freeRuntime", cleanup_freeRuntime(e3))) ELSE t3
        e4 == LastEng(t4, e)
    IN Append(t4, Step("resetRoot", cleanup_resetRoot(e4)))

\* What is kept of a step in cleanupTrace.
Snapshot(s) ==
    [step |-> s.step,
     rtAlive |-> s.eng.rt # NULLPTR,
     ctxAlive |-> s.eng.ctx # NULLPTR,
     rootAlive |-> ~IsNull(s.eng.root),
     mapsEmpty |-> s.eng.modData = {} /\ s.eng.cache = {},
     dangling |-> s.eng.handles \ WrappersIn(s.eng.root)]

----------------------------------------------------------------------------
(* Scripts, compiled units and the file system the engine reads.           *)

\* What a script imports, whether its body throws, and what it makes reachable
\* under the name "load": nothing, a property it assigns on globalThis, or an
\* export; the function returns normally ("ok") or throws ("throw").
\* A text that is no module at all has def "unparsable".
ImportNames == {"math", "util", "ghost"}
Definitions == {"none", "global_ok", "export_throw", "unparsable"}
Parses(s) == s.def # "unparsable"
\* A body that throws defines nothing; a text that does not parse has neither
\* an import nor a body.
Scripts ==
    {s \in [imp : ImportNames \cup {"none"}, throws : BOOLEAN, def : Definitions] :
        /\ s.throws => s.def = "none"
        /\ s.imp # "none" => (s.def = "none" /\ ~s.throws)
        /\ ~Parses(s) => (s.imp = "none" /\ ~s.throws)}

\* Files std::ifstream can open, and those among them that compile as a module.
ReadableFiles == {"main.js", "util.js", "bad.js"}
CompilableFiles == {"main.js", "util.js"}
\* The paths runFile(path) is given, and what the readable one holds.
RunPaths == {"main.js", "missing.js"}
FileContent(path) == [imp |-> "math", throws |-> FALSE, def |-> "global_ok"]

\* Names in which std::string::find(".js") finds the extension.
HasJsExtension == {"main.js", "util.js", "bad.js", "missing.js"}
\* if (path.find(".js") == std::string::npos) path += ".js";
withDefaultExtension(name) == IF name \in HasJsExtension THEN name ELSE name \o ".js"

\* A byte buffer given to runBytecode: whether JS_ReadObject accepts it, whether
\* the unit is a module, and the script it was compiled from.  A unit that is a
\* plain function has no import and no export.
NoScript == [imp |-> "none", throws |-> FALSE, def |-> "none"]
Bytecodes ==
    {b \in [valid : BOOLEAN, isModule : BOOLEAN, script : Scripts] :
        /\ Parses(b.script)
        /\ ~b.valid => (b.script = NoScript /\ ~b.isModule)
        /\ ~b.isModule => (b.script.imp = "none"
                           /\ b.script.def \notin {"export_ok", "export_throw"})}

\* Module definitions (JSModuleDef*): the null pointer, the definition built for
\* a native module, and the definition compiled from a script under a name.
NoModule == <<"null", "">>
NativeDef(name) == <<"native", name>>
ScriptDef(name) == <<"script", name>>

\* What is recorded of a call the runtime makes into the engine's hooks: the
\* hook, the module name or handle it was given, the definition and exception
\* it answered with, the file it opened and compiled, and its return code.
HookCall(fn, name, def, exc, opened, rc) ==
    [fn |-> fn, name |-> name, def |-> def, exc |-> exc, opened |-> opened, rc |-> rc]

Min(a, b) == IF a < b THEN a ELSE b

----------------------------------------------------------------------------
(* Installing the module tree.                                             *)

\* JSEngine::installToObject(g, *global_): the root's functions, then its values,
\* then its children become properties of obj; a later one overwrites an earlier
\* one of the same name.
installToObject(gobj, tree) ==
    LET node == tree[Root]
        g1 == [n \in DOMAIN gobj |->
                 IF n \in FuncNames /\ node.funcs[n] # 0 THEN "native" ELSE gobj[n]]
        g2 == [n \in DOMAIN gobj |->
                 IF n \in ValueNames /\ node.values[n] # 0 THEN "value" ELSE g1[n]]
    IN [n \in DOMAIN gobj |-> IF <<n>> \in DOMAIN tree THEN "object" ELSE g2[n]]

\* The properties one pass of the three loops (functions, values, children)
\* sets on the object made for the node at p; a later loop overwrites an
\* earlier one on the same name.
installChildModule_props(tree, p) ==
    [n \in PropNames |->
        IF Append(p, n) \in DOMAIN tree THEN ObjectProp
        ELSE IF n \in ValueNames /\ tree[p].values[n] # 0 THEN creator(tree[p].values[n])
        ELSE IF n \in FuncNames /\ tree[p].funcs[n] # 0
             THEN createJSFunction(tree[p].funcs[n])
        ELSE AbsentProp]

\* JSEngine::installChildModule(ctx, obj, node at p): obj and, by the recursion
\* over children_, an object for every node below p; the result gives the
\* objects by their path from p.
installChildModule(tree, p) ==
    [r \in {SubSeq(q, Len(p) + 1, Len(q)) : q \in {x \in DOMAIN tree : IsPrefix(p, x)}} |->
        installChildModule_props(tree, p \o r)]

\* The child loop of installToObject: an object for every node below the root,
\* by its path from the global object.
installToObject_children(tree) ==
    [q \in DOMAIN tree \ {Root} |-> installChildModule(tree, <<q[1]>>)[Tail(q)]]

\* if (installed_) return;
\* A variant of the guard of ensureInstalled that never finds the walk done.
ensureInstalled_done_Never(e) == FALSE

ensureInstalled_done(e) == e.installed

\* JSEngine::ensureInstalled.  The result is a set: with an empty global_ the
\* call installToObject(g, *global_) dereferences a null pointer, and the
\* outcomes taken are a fault and a walk that finds nothing.
ensureInstalled(e) ==
    IF ensureInstalled_done(e) THEN {e}
    ELSE LET e1 == [e EXCEPT !.installed = TRUE, !.walks = Min(@ + 1, WalkCap)]
         IN IF IsNull(e1.root)
            THEN {[e1 EXCEPT !.crashed = TRUE], e1}
            ELSE {[e1 EXCEPT !.gobj = installToObject(@, e1.root),
                             !.kids = installToObject_children(e1.root),
                             !.handles = @ \cup WrappersIn(e1.root)]}

----------------------------------------------------------------------------
(* The module-resolution hook and the native-module callbacks.             *)

\* JSEngine::findModule: a top-level child of the root.
findModule(e, name) == ~IsNull(e.root) /\ <<name>> \in DOMAIN e.root

Resolved(e, def, exc) == [eng |-> e, def |-> def, exc |-> exc]

\* A variant of the declaration that leaves out the child names.
createCppModule_names_NoChildren(tree, p) ==
    {n \in FuncNames : tree[p].funcs[n] # 0}
    \cup {n \in ValueNames : tree[p].values[n] # 0}

\* The names createCppModule declares for the node at p: every function name,
\* every value name, every child name.
createCppModule_names(tree, p) ==
    {n \in FuncNames : tree[p].funcs[n] # 0}
    \cup {n \in ValueNames : tree[p].values[n] # 0}
    \cup {n \in ChildNames : Append(p, n) \in DOMAIN tree}

\* JSEngine::createCppModule: a new definition whose callback is initModule; the
\* handle is recorded with its node and the export names are declared.
createCppModule(e, name) ==
    Resolved([e EXCEPT !.modData = @ \cup {<<NativeDef(name), <<name>>>>},
                       !.exports[name] =
                           [state |-> "declared",
                            declared |-> createCppModule_names(e.root, <<name>>),
                            graph |-> NoObjects]],
             NativeDef(name), "none")

\* A variant of the test that takes every file to be readable.
loadModule_opens_Always(name) == TRUE

\* The file loadModule opens for a name, and whether it compiles as a module.
loadModule_opens(name) == withDefaultExtension(name) \in ReadableFiles
loadModule_compiles(name) == withDefaultExtension(name) \in CompilableFiles

\* A variant of the answer that looks in the cache before the native modules.
loadModule_answer_CacheFirst(e, name) ==
    IF e.cleanedUp THEN Resolved(e, NoModule, "InternalError")
    ELSE IF \E c \in e.cache : c[1] = name
         THEN Resolved(e, (CHOOSE c \in e.cache : c[1] = name)[2], "none")
    ELSE IF findModule(e, name) THEN createCppModule(e, name)
    ELSE IF ~loadModule_opens(name) THEN Resolved(e, NoModule, "ReferenceError")
    ELSE IF ~loadModule_compiles(name) THEN Resolved(e, NoModule, "SyntaxError")
    ELSE Resolved([e EXCEPT !.cache = @ \cup {<<name, ScriptDef(name)>>}],
                  ScriptDef(name), "none")

\* What loadModule answers.
loadModule_answer(e, name) ==
    IF e.cleanedUp THEN Resolved(e, NoModule, "InternalError")
    ELSE IF findModule(e, name) THEN createCppModule(e, name)
    ELSE IF \E c \in e.cache : c[1] = name
         THEN Resolved(e, (CHOOSE c \in e.cache : c[1] = name)[2], "none")
    ELSE IF ~loadModule_opens(name) THEN Resolved(e, NoModule, "ReferenceError")
    ELSE IF ~loadModule_compiles(name) THEN Resolved(e, NoModule, "SyntaxError")
    ELSE Resolved([e EXCEPT !.cache = @ \cup {<<name, ScriptDef(name)>>}],
                  ScriptDef(name), "none")

\* The file loadModule has opened on the way to its answer.
loadModule_opened(e, name) ==
    IF e.cleanedUp \/ findModule(e, name) \/ (\E c \in e.cache : c[1] = name)
       \/ ~loadModule_opens(name)
    THEN "none"
    ELSE withDefaultExtension(name)

\* JSEngine::loadModule, the module loader registered on the shared runtime.
loadModule_recorded(e, name, r) ==
    [r EXCEPT !.eng.calls = Append(@, HookCall("loadModule", name, r.def, r.exc,
                                               loadModule_opened(e, name), 0))]

loadModule(e, name) == loadModule_recorded(e, name, loadModule_answer(e, name))

\* The loops of initModule over the node at p: JS_SetModuleExport succeeds on a
\* declared name only, and the callback returns -1 at the first that fails.
\* The result gives the names bound, loop by loop (each loop is over at most
\* one name here).
initModule_bindable(tree, p, declared) ==
    LET fs == {n \in FuncNames : tree[p].funcs[n] # 0}
        vs == {n \in ValueNames : tree[p].values[n] # 0}
        cs == {n \in ChildNames : Append(p, n) \in DOMAIN tree}
    IN IF ~(fs \subseteq declared) THEN [names |-> {}, rc |-> -1]
       ELSE IF ~(vs \subseteq declared) THEN [names |-> fs, rc |-> -1]
       ELSE IF ~(cs \subseteq declared) THEN [names |-> fs \cup vs, rc |-> -1]
       ELSE [names |-> fs \cup vs \cup cs, rc |-> 0]

\* A variant of the binding that populates no object below the namespace.
initModule_graph_Flat(tree, p, names) ==
    [r \in {<< >>} |->
        [n \in PropNames |->
            IF n \notin names THEN AbsentProp
            ELSE IF n \in FuncNames /\ tree[p].funcs[n] # 0
                 THEN createJSFunction(tree[p].funcs[n])
            ELSE IF n \in ValueNames /\ tree[p].values[n] # 0
                 THEN creator(tree[p].values[n])
            ELSE ObjectProp]]

\* The module's namespace and the objects below it once the names have been bound.
initModule_graph(tree, p, names) ==
    LET below == installChildModule(tree, p)
    IN [r \in {x \in DOMAIN below : x = << >> \/ x[1] \in names} |->
          IF r # << >> THEN below[r]
          ELSE [n \in PropNames |->
                  IF n \notin names THEN AbsentProp
                  ELSE IF n \in FuncNames /\ tree[p].funcs[n] # 0
                       THEN createJSFunction(tree[p].funcs[n])
                  ELSE IF n \in ValueNames /\ tree[p].values[n] # 0
                       THEN creator(tree[p].values[n])
                  ELSE ObjectProp]]

\* initModule for a handle that is recorded with the node at p.
initModule_bind(e, m, p) ==
    LET b == initModule_bindable(e.root, p, e.exports[m[2]].declared)
    IN [eng |-> [e EXCEPT !.handles = @ \cup WrappersUnder(e.root, p),
                          !.exports[m[2]].state = IF b.rc = 0 THEN "bound" ELSE "failed",
                          !.exports[m[2]].graph = initModule_graph(e.root, p, b.names),
                          !.calls = Append(@, HookCall("initModule", m[2], m, "none", "none", b.rc))],
        rc |-> b.rc]

\* JSEngine::initModule: -1 when the handle has no recorded node.
initModule(e, m) ==
    IF ~\E d \in e.modData : d[1] = m
    THEN [eng |-> [e EXCEPT !.calls = Append(@, HookCall("initModule", m[2], m, "none", "none", -1))],
          rc |-> -1]
    ELSE initModule_bind(e, m, (CHOOSE d \in e.modData : d[1] = m)[2])

----------------------------------------------------------------------------
(* The runtime evaluating a module (JS_Eval with JS_EVAL_TYPE_MODULE, or   *)
(* JS_ResolveModule and JS_EvalFunction on a deserialized module).         *)

\* The import is resolved: a name the context has loaded is not asked for again,
\* any other goes to the loader the engine registered.  fresh is the definition
\* the loader gave, NoModule when it was not asked.
JS_ResolveModule(e, s) ==
    IF s.imp = "none" \/ s.imp \in e.loaded THEN [eng |-> e, exc |-> "none", fresh |-> NoModule]
    ELSE LET r == loadModule(e, s.imp)
         IN IF r.def = NoModule THEN [eng |-> r.eng, exc |-> r.exc, fresh |-> NoModule]
            ELSE [eng |-> [r.eng EXCEPT !.loaded = @ \cup {s.imp}],
                  exc |-> "none", fresh |-> r.def]

\* The body of a module runs: one that completes has made its global assignment.
JS_EvalFunction_body(e, s) ==
    IF s.throws THEN [eng |-> e, exc |-> "Error"]
    ELSE IF s.def = "throw_text" THEN [eng |-> e, exc |-> "text"]
    ELSE IF s.def = "global_ok"
         THEN [eng |-> [e EXCEPT !.gobj["load"] = "script_ok"], exc |-> "none"]
    ELSE IF s.def = "global_throw"
         THEN [eng |-> [e EXCEPT !.gobj["load"] = "script_throw"], exc |-> "none"]
    ELSE IF s.def = "loader"
         THEN [eng |-> [e EXCEPT !.gobj = [n \in DOMAIN @ |-> IF n \in CallbackNames
                                                               THEN s.main[n] ELSE @[n]]],
               exc |-> "none"]
    ELSE [eng |-> e, exc |-> "none"]

\* The module is linked and run: a native definition loaded for it has its
\* callback called first, then the body runs.
JS_EvalFunction_init(e, s, i) ==
    IF i.rc < 0 THEN [eng |-> i.eng, exc |-> "SyntaxError"]
    ELSE JS_EvalFunction_body(i.eng, s)

JS_EvalFunction(e, s, fresh) ==
    IF fresh[1] = "native" THEN JS_EvalFunction_init(e, s, initModule(e, fresh))
    ELSE JS_EvalFunction_body(e, s)

\* JS_Eval with JS_EVAL_TYPE_MODULE: parse, resolve, link and run.
JS_Eval_resolved(s, r) ==
    IF r.exc # "none" THEN [eng |-> r.eng, exc |-> r.exc]
    ELSE JS_EvalFunction(r.eng, s, r.fresh)

JS_Eval(e, s) ==
    IF ~Parses(s) THEN [eng |-> e, exc |-> "SyntaxError"]
    ELSE JS_Eval_resolved(s, JS_ResolveModule(e, s))

\* The error callbacks the host sets: none (an empty std::function), one that
\* logs the text and returns, one that throws a host exception.
NoCallback == "none"
ErrorCallbacks == {NoCallback, "log", "rethrow"}

\* JSEngine::setErrorCallback.
setErrorCallback(e, callback) == [e EXCEPT !.errorCallback = callback]

\* The exceptions of the model: a primitive that was thrown ("text") has no
\* message and no stack property; an Error object has both.
IsErrorObject(exc) == exc # "text"

\* The text dumpError builds: "Error: " and the message property, or the
\* exception converted to text when it has none; then a line break and the stack
\* property when there is one.
dumpError_text(exc) ==
    IF IsErrorObject(exc)
    THEN "Error: " \o exc \o " message" \o "\n" \o exc \o " stack"
    ELSE "Error: " \o exc

\* if (errorCallback_) errorCallback_(errorMsg); else fprintf(stderr, ...);
\* A variant of the delivery that always writes to the diagnostic stream.
dumpError_target_Stderr(e) == "stderr"

dumpError_target(e) == IF e.errorCallback # NoCallback THEN e.errorCallback ELSE "stderr"

\* JSEngine::dumpError: the pending exception is taken, its text is built and
\* delivered to the error sink.  A callback that throws leaves the engine's
\* function by its exception: what follows the call of dumpError does not run.
dumpError(e, exc) ==
    [e EXCEPT !.sunk = @ + 1,
              !.delivered = Append(@, [to |-> dumpError_target(e), text |-> dumpError_text(exc)]),
              !.unwinding = (dumpError_target(e) = "rethrow")]

\* dumpError(); return false;
dumpError_return(e, exc) ==
    [eng |-> dumpError(e, exc),
     ret |-> IF dumpError(e, exc).unwinding THEN "throw" ELSE "false"]

Returned(e, ret) == [eng |-> e, ret |-> ret]

----------------------------------------------------------------------------
(* The execution entry points.  Each gives the set of its outcomes: the    *)
(* state it leaves, what it returns ("true", "false", or "fault" when it   *)
(* does not return), whether it used the runtime or the context, whether   *)
(* it passed its lifecycle check and whether it reached ensureInstalled.   *)

Outcome(e, ret, touched, passed, reached) ==
    [eng |-> e, ret |-> ret, touched |-> touched, passed |-> passed, reached |-> reached]

\* JSEngine::eval.
eval(e, s) ==
    {IF e1.crashed THEN Returned(e1, "fault")
     ELSE LET r == JS_Eval(e1, s)
          IN IF r.exc # "none" THEN dumpError_return(r.eng, r.exc)
             ELSE Returned(r.eng, "true")
     : e1 \in ensureInstalled(e)}

\* if (cleanedUp_ || !ctx_) return false;  in runFile(path)
runFile_rejected(e) == e.cleanedUp \/ e.ctx = NULLPTR

\* JSEngine::runFile(path).
runFile(e, path) ==
    IF runFile_rejected(e) THEN {Outcome(e, "false", FALSE, FALSE, FALSE)}
    ELSE IF path \notin ReadableFiles THEN {Outcome(e, "false", FALSE, TRUE, FALSE)}
    ELSE {Outcome(r.eng, r.ret, TRUE, TRUE, TRUE) : r \in eval(e, FileContent(path))}

\* if (cleanedUp_ || !ctx_) return false;  in runFile(name, code)
runFileInline_rejected(e) == e.cleanedUp \/ e.ctx = NULLPTR

\* JSEngine::runFile(name, code).
runFileInline(e, s) ==
    IF runFileInline_rejected(e) THEN {Outcome(e, "false", FALSE, FALSE, FALSE)}
    ELSE {Outcome(r.eng, r.ret, TRUE, TRUE, TRUE) : r \in eval(e, s)}

\* JS_GetModuleNamespace: the namespace of an evaluated module, its exported
\* names with the values they are bound to.
NoExportedNames == [n \in {} |-> "absent"]
JS_GetModuleNamespace(s) ==
    IF "exports" \in DOMAIN s THEN s.exports
    ELSE IF s.def = "export_ok" THEN [n \in {"load"} |-> "script_ok"]
    ELSE IF s.def = "export_throw" THEN [n \in {"load"} |-> "script_throw"]
    ELSE NoExportedNames

\* A variant of the enumeration that looks for the names of a fixed list.
JS_GetOwnPropertyNames_FixedList(ns) == DOMAIN ns \cap {"load", "update", "draw"}

\* JS_GetOwnPropertyNames(..., moduleNS, JS_GPN_STRING_MASK | JS_GPN_ENUM_ONLY)
JS_GetOwnPropertyNames(ns) == DOMAIN ns

\* The loop of registerModuleExportsToGlobal: JS_SetProperty(global, name, value)
\* for every enumerated name.
registerModuleExportsToGlobal_set(e, ns, names) ==
    [e EXCEPT !.gobj = [n \in DOMAIN @ |-> IF n \in names THEN ns[n] ELSE @[n]]]

\* JSEngine::registerModuleExportsToGlobal: every export becomes a global property.
registerModuleExportsToGlobal(e, s) ==
    registerModuleExportsToGlobal_set(e, JS_GetModuleNamespace(s),
                                      JS_GetOwnPropertyNames(JS_GetModuleNamespace(s)))

\* if (cleanedUp_ || !ctx_) return false;  in runBytecode
runBytecode_rejected(e) == e.cleanedUp \/ e.ctx = NULLPTR

\* JSEngine::runBytecode after ensureInstalled.
\* The runtime values callGlobal obtains: the global object, the property, the
\* converted arguments, the result of the call.
GlobalVal == <<"global", 0>>
FuncVal == <<"func", 0>>
ResultVal == <<"result", 0>>
ArgVal(i) == <<"argv", i>>

\* A value is obtained from the runtime; JS_FreeValue is called on a value.
JS_Obtain(e, v) == [e EXCEPT !.created = @ \cup {v}]
JS_FreeValue(e, v) == [e EXCEPT !.freed = Append(@, v)]

\* The runtime values runBytecode obtains besides the evaluation result: the
\* deserialized unit and the module namespace.
ObjVal == <<"obj", 0>>
NamespaceVal == <<"moduleNS", 0>>

\* A variant of the failed-resolution exit that frees the unit before it returns.
runBytecode_unresolved_Freed(e, exc) == dumpError_return(JS_FreeValue(e, ObjVal), exc)

\* if (JS_ResolveModule(ctx_, obj) < 0) { fprintf; dumpError(); return false; }
runBytecode_unresolved(e, exc) == dumpError_return(e, exc)

\* JS_FreeValue(ctx_, result), then the namespace of a module: taken,
\* registered, freed.
runBytecode_evaluated(e, b) ==
    IF b.isModule
    THEN Returned(JS_FreeValue(registerModuleExportsToGlobal(JS_Obtain(e, NamespaceVal), b.script),
                               NamespaceVal), "true")
    ELSE Returned(e, "true")

\* JSValue result = JS_EvalFunction(ctx_, obj), which takes obj over and frees
\* it whatever the outcome.  An exception is the constant JS_EXCEPTION, which
\* holds no reference.
runBytecode_result(v, b) ==
    IF v.exc # "none" THEN dumpError_return(v.eng, v.exc)
    ELSE runBytecode_evaluated(JS_FreeValue(JS_Obtain(v.eng, ResultVal), ResultVal), b)

runBytecode_resolved(r, b) ==
    IF r.exc # "none" THEN runBytecode_unresolved(r.eng, r.exc)
    ELSE runBytecode_result(JS_EvalFunction(JS_FreeValue(r.eng, ObjVal), b.script, r.fresh), b)

runBytecode_body(e, b) ==
    IF ~b.valid THEN dumpError_return(e, "SyntaxError")
    ELSE runBytecode_resolved(IF b.isModule THEN JS_ResolveModule(JS_Obtain(e, ObjVal), b.script)
                              ELSE [eng |-> JS_Obtain(e, ObjVal), exc |-> "none", fresh |-> NoModule],
                              b)

\* JSEngine::runBytecode.
runBytecode(e, b) ==
    IF runBytecode_rejected(e) THEN {Outcome(e, "false", FALSE, FALSE, FALSE)}
    ELSE {LET r == IF e1.crashed THEN Returned(e1, "fault") ELSE runBytecode_body(e1, b)
          IN Outcome(r.eng, r.ret, TRUE, TRUE, TRUE)
          : e1 \in ensureInstalled(e)}

\* if (cleanedUp_ || !ctx_) return false;  in callGlobal
\* A variant of the guard of callGlobal that looks at the context only.
callGlobal_rejected_ContextOnly(e) == e.ctx = NULLPTR

callGlobal_rejected(e) == e.cleanedUp \/ e.ctx = NULLPTR

\* The names callGlobal is given: a name a script defines, a name a registered
\* value is installed under, and a name nothing defines.
CallNames == ScriptGlobals \cup ValueNames \cup {"nosuch"}
GetProperty(gobj, name) == IF name \in DOMAIN gobj THEN gobj[name] ELSE "absent"

\* Arguments in one callGlobal call.
MaxCallArgs == 1

\* JSEngine::convertArgs: argv[i] = JSConv<T>::to(ctx_, arg), first to last.
convertArgs(e, argc) == [e EXCEPT !.created = @ \cup {ArgVal(i) : i \in 1..argc}]

\* A variant of freeArgs that frees no argument.
freeArgs_None(e, count) == e

\* JSEngine::freeArgs: JS_FreeValue on argv[0] .. argv[count - 1].
freeArgs(e, count) == [e EXCEPT !.freed = @ \o [i \in 1..count |-> ArgVal(i)]]

\* JS_FreeValue(ctx_, func); JS_FreeValue(ctx_, global); return success;
callGlobal_return(e, success) ==
    Outcome(JS_FreeValue(JS_FreeValue(e, FuncVal), GlobalVal),
            IF success THEN "true" ELSE "false", TRUE, TRUE, FALSE)

\* The branch of callGlobal taken for a function: the arguments are converted,
\* JS_Call is made, an exception goes to dumpError, the result and then the
\* arguments are freed.  (The branch for no argument makes the same call
\* without convertArgs and freeArgs.)
callGlobal_call(e, argc, throws) ==
    LET called == JS_Obtain(IF argc > 0 THEN convertArgs(e, argc) ELSE e, ResultVal)
        dumped == IF throws THEN dumpError(called, "Error") ELSE called
        freed == JS_FreeValue(dumped, ResultVal)
    IN IF dumped.unwinding THEN Outcome(dumped, "throw", TRUE, TRUE, FALSE)
       ELSE callGlobal_return(IF argc > 0 THEN freeArgs(freed, argc) ELSE freed, ~throws)

\* callGlobal past its guard, the property being of the given kind.  A script
\* function returns or throws as it was written to; what a native function
\* does when called with these arguments is not followed: it returns or throws.
callGlobal_found(e, kind, argc) ==
    IF kind = "script_ok" THEN {callGlobal_call(e, argc, FALSE)}
    ELSE IF kind = "script_throw" THEN {callGlobal_call(e, argc, TRUE)}
    ELSE IF kind = "native"
         THEN {callGlobal_call(e, argc, FALSE), callGlobal_call(e, argc, TRUE)}
    ELSE {callGlobal_return(e, FALSE)}

\* JSEngine::callGlobal(name, args...).
callGlobal(e, name, argc) ==
    IF callGlobal_rejected(e) THEN {Outcome(e, "false", FALSE, FALSE, FALSE)}
    ELSE callGlobal_found(JS_Obtain(JS_Obtain(e, GlobalVal), FuncVal),
                          GetProperty(e.gobj, name), argc)

----------------------------------------------------------------------------
(* The specification of the engine.                                        *)

NoCall == [called |-> FALSE]
NoOp == [op |-> "none", ret |-> "void", touched |-> FALSE, sunk |-> 0, delivered |-> << >>,
         calls |-> << >>, created |-> {}, freed |-> << >>]

\* No compile call has been made.
CompIdle == [pc |-> "idle"]

EngineInit ==
    /\ rt_ = NULLPTR
    /\ ctx_ = NULLPTR
    /\ global_ = NullTree
    /\ installed_ = FALSE
    /\ modData_ = {}
    /\ jsModuleCache_ = {}
    /\ cleanedUp_ = FALSE
    /\ errorCallback_ = NoCallback
    /\ handles = {}
    /\ loaded = {}
    /\ globalObj = EmptyGlobalObj
    /\ childObjs = NoObjects
    /\ moduleExports = NoExports
    /\ rtCreated = 0
    /\ ctxCreated = 0
    /\ rootCreated = 0
    /\ wrappersMade = 0
    /\ installWalks = 0
    /\ passedCheck = FALSE
    /\ reachedEval = FALSE
    /\ lastOp = NoOp
    /\ cleanupTrace = << >>
    /\ crashed = FALSE

Init ==
    /\ EngineInit
    /\ lastCall = NoCall
    /\ comp = CompIdle

\* The calls lastOp does not follow.
RegistrationOps == {"global", "module", "func", "value", "setErrorCallback"}

\* What the observation variables record of a call that left the state e.
Observed(op, e, ret, touched, passed, reached) ==
    /\ rtCreated' = rtCreated + (IF e.rt # NULLPTR /\ e.rt # rt_ THEN 1 ELSE 0)
    /\ ctxCreated' = ctxCreated + (IF e.ctx # NULLPTR /\ e.ctx # ctx_ THEN 1 ELSE 0)
    /\ rootCreated' = rootCreated + (IF IsNull(global_) /\ ~IsNull(e.root) THEN 1 ELSE 0)
    /\ passedCheck' = (passedCheck \/ passed)
    /\ reachedEval' = (reachedEval \/ reached)
    /\ lastOp' = IF op \in RegistrationOps THEN lastOp
                 ELSE [op |-> op, ret |-> ret, touched |-> touched, sunk |-> e.sunk,
                       delivered |-> e.delivered,
                       calls |-> e.calls, created |-> e.created, freed |-> e.freed]

Initialize ==
    /\ ~crashed
    /\ initialize_done(Cur) \/ rtCreated < MaxRuntimes
    /\ LET e == initialize(Cur, rtCreated + 1)
       IN /\ Becomes(e)
          /\ Observed("initialize", e, "void", e.rt # rt_, FALSE, FALSE)
    /\ UNCHANGED <<wrappersMade, cleanupTrace, lastCall, comp>>

Global ==
    /\ ~crashed
    /\ LET e == [Cur EXCEPT !.root = global(@)]
       IN /\ Becomes(e)
          /\ Observed("global", e, "void", FALSE, FALSE, FALSE)
    /\ UNCHANGED <<wrappersMade, cleanupTrace, lastCall, comp>>

\* global().module(m)
Module(m) ==
    /\ ~crashed
    /\ LET e == [Cur EXCEPT !.root = module(global(@), Root, m)]
       IN /\ Becomes(e)
          /\ Observed("module", e, "void", FALSE, FALSE, FALSE)
    /\ UNCHANGED <<wrappersMade, cleanupTrace, lastCall, comp>>

\* global().func(n, f) and global().module(m).func(n, f)
Func(p, n) ==
    /\ ~crashed
    /\ wrappersMade < MaxWrappers
    /\ LET e == [Cur EXCEPT !.root = func(nodeAt(global(@), p, 1), p, n, wrappersMade + 1)]
       IN /\ Becomes(e)
          /\ Observed("func", e, "void", FALSE, FALSE, FALSE)
    /\ wrappersMade' = wrappersMade + 1
    /\ UNCHANGED <<cleanupTrace, lastCall, comp>>

\* global().value(n, c) and global().module(m).value(n, c)
Value(p, n, c) ==
    /\ ~crashed
    /\ LET e == [Cur EXCEPT !.root = value(nodeAt(global(@), p, 1), p, n, c)]
       IN /\ Becomes(e)
          /\ Observed("value", e, "void", FALSE, FALSE, FALSE)
    /\ UNCHANGED <<wrappersMade, cleanupTrace, lastCall, comp>>

Cleanup ==
    /\ ~crashed
    /\ IF cleanup_done(Cur)
       THEN /\ Becomes(Cur)
            /\ Observed("cleanup", Cur, "void", FALSE, FALSE, FALSE)
            /\ UNCHANGED cleanupTrace
       ELSE LET tr == cleanup_run(Cur)
                e == LastEng(tr, Cur)
            IN /\ Becomes(e)
               /\ Observed("cleanup", e, "void", TRUE, FALSE, FALSE)
               /\ cleanupTrace' = [i \in 1..Len(tr) |-> Snapshot(tr[i])]
    /\ UNCHANGED <<wrappersMade, lastCall, comp>>

\* The call op ended with the outcome o.
Took(op, o) ==
    /\ Becomes(o.eng)
    /\ Observed(op, o.eng, o.ret, o.touched, o.passed, o.reached)

RunFile(path) ==
    /\ ~crashed
    /\ \E o \in runFile(Cur, path) : Took("runFile", o)
    /\ UNCHANGED <<wrappersMade, cleanupTrace, lastCall, comp>>

RunFileInline(s) ==
    /\ ~crashed
    /\ \E o \in runFileInline(Cur, s) : Took("runFileInline", o)
    /\ UNCHANGED <<wrappersMade, cleanupTrace, lastCall, comp>>

RunBytecode(b) ==
    /\ ~crashed
    /\ \E o \in runBytecode(Cur, b) : Took("runBytecode", o)
    /\ UNCHANGED <<wrappersMade, cleanupTrace, lastCall, comp>>

CallGlobal(name, argc) ==
    /\ ~crashed
    /\ \E o \in callGlobal(Cur, name, argc) : Took("callGlobal", o)
    /\ UNCHANGED <<wrappersMade, cleanupTrace, lastCall, comp>>

SetErrorCallback(callback) ==
    /\ ~crashed
    /\ \E e \in {setErrorCallback(Cur, callback)} :
          /\ Becomes(e)
          /\ Observed("setErrorCallback", e, "void", FALSE, FALSE, FALSE)
    /\ UNCHANGED <<wrappersMade, cleanupTrace, lastCall, comp>>

Next ==
    \/ Initialize
    \/ Global
    \/ \E m \in ModuleNames : Module(m)
    \/ \E p \in FuncPaths, n \in FuncNames : Func(p, n)
    \/ \E p \in ValuePaths, n \in ValueNames, c \in ValueConsts : Value(p, n, c)
    \/ Cleanup
    \/ \E path \in RunPaths : RunFile(path)
    \/ \E s \in Scripts : RunFileInline(s)
    \/ \E b \in Bytecodes : RunBytecode(b)
    \/ \E name \in CallNames, argc \in 0..MaxCallArgs : CallGlobal(name, argc)

Spec == Init /\ [][Next]_vars

----------------------------------------------------------------------------
(* Runtime values and native values.                                       *)
(*                                                                         *)
(* A runtime value is a record: t is its type ("nan" is the number NaN), n *)
(* its number (a boolean's 0 or 1, an array's length), s its text, el the  *)
(* elements an array stores (an index at or past Len(el) is a hole and     *)
(* reads as undefined; in an array that to built, s says what is stored at  *)
(* these indices: "0" the number 0, "NaN" the number NaN).  A native value *)
(* is a record of the same kind: t is the C++ type, el the leading         *)
(* elements of a vector and fill the number of further elements, each the  *)
(* value undefined converts to (0 in a vector of int, NaN in one of        *)
(* double).                                                                *)

\* Arguments in one call.
MaxArgs == 3

\* JSConv<std::vector<T>>::MAX_ARRAY_LENGTH
MAX_ARRAY_LENGTH == 1000000

JSVal(t, n, s, el) == [t |-> t, n |-> n, s |-> s, el |-> el]
JSNumber(n) == JSVal("number", n, "", << >>)
JS_NAN == JSVal("nan", 0, "", << >>)
JSString(s) == JSVal("string", 0, s, << >>)
JSBoolean(b) == JSVal("boolean", IF b THEN 1 ELSE 0, "", << >>)
JS_UNDEFINED == JSVal("undefined", 0, "", << >>)
JSSymbol == JSVal("symbol", 0, "", << >>)
JSArray(len, el) == JSVal("array", len, "", el)

Native(t, n, s, el, fill) == [t |-> t, n |-> n, s |-> s, el |-> el, fill |-> fill]
NInt(n) == Native("int", n, "", << >>, 0)
NDouble(n) == Native("double", n, "", << >>, 0)
NDoubleNaN == Native("nan", 0, "", << >>, 0)
NString(s) == Native("string", 0, s, << >>, 0)
NBool(b) == Native("bool", IF b THEN 1 ELSE 0, "", << >>, 0)
NVector(el, fill) == Native("vector", 0, "", el, fill)
NVoid == Native("void", 0, "", << >>, 0)

\* The exception channel of the context: no exception pending, or the error that
\* was thrown last (a throw replaces what was pending).
NoException == "none"

\* The values scripts pass in the model.
ArgValues ==
    {JSNumber(2), JSNumber(3), JSString("x"), JSString("7"), JSBoolean(TRUE), JSSymbol,
     JSArray(2, <<JSNumber(1), JSNumber(2)>>),
     JSArray(2, <<JSNumber(1), JSSymbol>>),
     JSArray(MAX_ARRAY_LENGTH + 1, << >>)}

----------------------------------------------------------------------------
(* The runtime's conversions (QuickJS), as far as the values above go.     *)

HasSymbol(v) == \E i \in 1..Len(v.el) : v.el[i].t = "symbol"

\* ToNumber: a symbol cannot be converted (TypeError); text that is no numeral,
\* and undefined, give NaN; an array is converted through its text.
JS_ToNumber(v) ==
    CASE v.t = "number" -> [exc |-> NoException, nan |-> FALSE, n |-> v.n]
      [] v.t = "nan" -> [exc |-> NoException, nan |-> TRUE, n |-> 0]
      [] v.t = "boolean" -> [exc |-> NoException, nan |-> FALSE, n |-> v.n]
      [] v.t = "undefined" -> [exc |-> NoException, nan |-> TRUE, n |-> 0]
      [] v.t = "string" ->
            IF v.s = "7" THEN [exc |-> NoException, nan |-> FALSE, n |-> 7]
            ELSE [exc |-> NoException, nan |-> TRUE, n |-> 0]
      [] v.t = "symbol" ->
            [exc |-> "TypeError: cannot convert symbol to number", nan |-> FALSE, n |-> 0]
      [] v.t = "array" ->
            IF HasSymbol(v)
            THEN [exc |-> "TypeError: cannot convert symbol to string", nan |-> FALSE, n |-> 0]
            ELSE IF v.n = 0 THEN [exc |-> NoException, nan |-> FALSE, n |-> 0]
            ELSE IF v.n = 1 /\ Len(v.el) = 1
                 THEN [exc |-> NoException, nan |-> v.el[1].t # "number", n |-> v.el[1].n]
            ELSE IF v.n = 1 THEN [exc |-> NoException, nan |-> FALSE, n |-> 0]
            ELSE [exc |-> NoException, nan |-> TRUE, n |-> 0]

\* JS_ToInt32: -1 with an exception pending, or 0 and the number reduced to 32
\* bits (NaN gives 0).  Every number of the model lies within the 32-bit range,
\* where the reduction changes nothing.
Int32Of(r) ==
    IF r.exc # NoException THEN [rc |-> -1, exc |-> r.exc, n |-> 0]
    ELSE [rc |-> 0, exc |-> NoException, n |-> IF r.nan THEN 0 ELSE r.n]
JS_ToInt32(v) == Int32Of(JS_ToNumber(v))

\* JS_ToFloat64: -1 with an exception pending, or 0 and the number.
Float64Of(r) ==
    IF r.exc # NoException THEN [rc |-> -1, exc |-> r.exc, nan |-> FALSE, n |-> 0]
    ELSE [rc |-> 0, exc |-> NoException, nan |-> r.nan, n |-> r.n]
JS_ToFloat64(v) == Float64Of(JS_ToNumber(v))

NumberText(n) ==
    CASE n = 0 -> "0" [] n = 1 -> "1" [] n = 2 -> "2" [] n = 3 -> "3"
      [] n = 5 -> "5" [] n = 7 -> "7" [] OTHER -> "<number>"

\* JS_ToCString: null with an exception pending for a symbol (alone or in an
\* array), otherwise the text of the value.
JS_ToCString(v) ==
    CASE v.t = "string" -> [null |-> FALSE, exc |-> NoException, s |-> v.s]
      [] v.t = "number" -> [null |-> FALSE, exc |-> NoException, s |-> NumberText(v.n)]
      [] v.t = "nan" -> [null |-> FALSE, exc |-> NoException, s |-> "NaN"]
      [] v.t = "boolean" ->
            [null |-> FALSE, exc |-> NoException, s |-> IF v.n = 1 THEN "true" ELSE "false"]
      [] v.t = "undefined" -> [null |-> FALSE, exc |-> NoException, s |-> "undefined"]
      [] v.t = "symbol" ->
            [null |-> TRUE, exc |-> "TypeError: cannot convert symbol to string", s |-> ""]
      [] v.t = "array" ->
            IF HasSymbol(v)
            THEN [null |-> TRUE, exc |-> "TypeError: cannot convert symbol to string", s |-> ""]
            ELSE [null |-> FALSE, exc |-> NoException, s |-> "<joined>"]

\* What an array holds at the indices from Len(el) on.
RestValue(v) ==
    CASE v.s = "0" -> JSNumber(0)
      [] v.s = "NaN" -> JS_NAN
      [] OTHER -> JS_UNDEFINED

\* JS_GetPropertyUint32 on an array: the stored element, or undefined for a hole.
JS_GetPropertyUint32(v, i) == IF i < Len(v.el) THEN v.el[i + 1] ELSE RestValue(v)

\* JS_GetException: the pending exception is handed to the caller and the channel
\* is emptied.  What is handed over is the thrown value (or the uninitialized
\* value when nothing was pending), never the JS_EXCEPTION marker.
JS_EXCEPTION == "JS_EXCEPTION"
JS_GetException(pending) ==
    [thrown |-> IF pending = NoException THEN "JS_UNINITIALIZED" ELSE pending,
     pending |-> NoException]

\* JS_IsException: the value is the JS_EXCEPTION marker.
JS_IsException(v) == v = JS_EXCEPTION

----------------------------------------------------------------------------
(* The marshalling rules JSConv<T>.  from gives the ok flag, the native    *)
(* value returned and the exception pending afterwards; pending is the     *)
(* exception pending before.                                               *)

Converted(ok, val, pending) == [ok |-> ok, val |-> val, pending |-> pending]

\* JSConv<int>::from: r is what JS_ToInt32 gave.
int_from(r, pending) ==
    IF r.rc < 0 THEN Converted(FALSE, NInt(0), r.exc)
    ELSE Converted(TRUE, NInt(r.n), pending)
JSConv_int_from(v, pending) == int_from(JS_ToInt32(v), pending)

\* JSConv<double>::from: r is what JS_ToFloat64 gave.
double_from(r, pending) ==
    IF r.rc < 0 THEN Converted(FALSE, NDouble(0), r.exc)
    ELSE Converted(TRUE, IF r.nan THEN NDoubleNaN ELSE NDouble(r.n), pending)
JSConv_double_from(v, pending) == double_from(JS_ToFloat64(v), pending)

\* JSConv<bool>::from
JSConv_bool_from(v, pending) ==
    IF v.t # "boolean" THEN Converted(FALSE, NBool(FALSE), pending)
    ELSE Converted(TRUE, NBool(v.n = 1), pending)

\* JSConv<std::string>::from: r is what JS_ToCString gave.
string_from(r, pending) ==
    IF r.null THEN Converted(FALSE, NString(""), r.exc)
    ELSE Converted(TRUE, NString(r.s), pending)
JSConv_string_from(v, pending) == string_from(JS_ToCString(v), pending)

\* A 64-bit integer is three limbs <<a, b, c>> and stands for
\* a * 2^44 + b * 2^22 + c, with b and c in 0 .. 2^22 - 1 and a in
\* -2^19 .. 2^19 - 1 (a magnitude may have a = 2^19, which is 2^63).
Limb == 2^22
Norm_carry(a, b0, c) == <<a + (b0 \div Limb), b0 % Limb, c % Limb>>
Norm(a, b, c) == Norm_carry(a, b + (c \div Limb), c)
Negated(x) == Norm(-x[1], -x[2], -x[3])
LimbsOfInt32(n) == Norm(0, 0, n)
FitsInt32(x) == (x[1] = 0 /\ x[2] < 2^9) \/ (x[1] = -1 /\ x[2] >= Limb - 2^9)
Int32OfLimbs(x) == (IF x[1] = -1 THEN x[2] - Limb ELSE x[2]) * Limb + x[3]

\* The number of binary digits of a, 0 < a < 2^31.
BitLength(a) ==
    IF a = 0 THEN 0 ELSE CHOOSE k \in 1..31 : 2^(k-1) <= a /\ (k = 31 \/ a < 2^k)

\* c rounded to a multiple of q, a tie going to the even multiple.
RoundTiesToEven_at(c, q, r) ==
    IF 2 * r < q THEN c - r
    ELSE IF 2 * r > q THEN c - r + q
    ELSE IF ((c - r) \div q) % 2 = 0 THEN c - r
    ELSE c - r + q
RoundTiesToEven(c, q) == RoundTiesToEven_at(c, q, c % q)

\* (double)v for a 64-bit integer: a magnitude of more than 53 binary digits is
\* rounded to 53.
Float64OfMagnitude(x) ==
    IF BitLength(x[1]) + 44 <= 53 THEN x
    ELSE Norm(x[1], x[2], RoundTiesToEven(x[3], 2^(BitLength(x[1]) + 44 - 53)))
Float64OfInt64(x) ==
    IF x[1] < 0 THEN Negated(Float64OfMagnitude(Negated(x))) ELSE Float64OfMagnitude(x)

\* static_cast<float>(r) for an integral double: 24 binary digits are kept.
Float32OfMagnitude(n) ==
    IF BitLength(n) <= 24 THEN n ELSE RoundTiesToEven(n, 2^(BitLength(n) - 24))
Float32Of(n) == IF n < 0 THEN -Float32OfMagnitude(-n) ELSE Float32OfMagnitude(n)

\* A number that is held as a float64 outside the 32-bit range: el is its
\* integral value in limbs.
JSFloat64(x) == JSVal("float64", 0, "", x)

\* JS_NewInt64: an int32 when the value fits, else a float64 of (double)v.
JS_NewInt64(x) ==
    IF FitsInt32(x) THEN JSNumber(Int32OfLimbs(x)) ELSE JSFloat64(Float64OfInt64(x))

\* JS_ToInt64 of a float64 of integral value: the value modulo 2^64.
Int64OfFloat64(x) == <<((x[1] + 2^19) % 2^20) - 2^19, x[2], x[3]>>

NInt64(x) == Native("int64", 0, "", x, 0)
NFloat(n) == Native("float", n, "", << >>, 0)
\* A std::string with an embedded NUL: s is what precedes the first NUL, el the
\* characters from that NUL on.
NStringWithNul(s, rest) == Native("string", 0, s, rest, 0)

\* JSConv<int64_t>::from: r is what JS_ToNumber gave.
int64_from(r, pending) ==
    IF r.exc # NoException THEN Converted(FALSE, NInt64(<<0, 0, 0>>), r.exc)
    ELSE Converted(TRUE, NInt64(IF r.nan THEN <<0, 0, 0>> ELSE LimbsOfInt32(r.n)), pending)
JSConv_int64_from(v, pending) ==
    IF v.t = "float64" THEN Converted(TRUE, NInt64(Int64OfFloat64(v.el)), pending)
    ELSE int64_from(JS_ToNumber(v), pending)

\* JSConv<float>::from: r is what JS_ToFloat64 gave.
float_from(r, pending) ==
    IF r.rc < 0 THEN Converted(FALSE, NFloat(0), r.exc)
    ELSE Converted(TRUE, IF r.nan THEN NDoubleNaN ELSE NFloat(Float32Of(r.n)), pending)
JSConv_float_from(v, pending) == float_from(JS_ToFloat64(v), pending)

ScalarTypes == {"int", "int64", "double", "float", "bool", "string"}

JSConv_scalar_from(T, v, pending) ==
    CASE T = "int" -> JSConv_int_from(v, pending)
      [] T = "int64" -> JSConv_int64_from(v, pending)
      [] T = "double" -> JSConv_double_from(v, pending)
      [] T = "float" -> JSConv_float_from(v, pending)
      [] T = "bool" -> JSConv_bool_from(v, pending)
      [] T = "string" -> JSConv_string_from(v, pending)

\* The element type of a vector type.
ElementType(T) == IF T = "vector<int>" THEN "int" ELSE "double"

\* The loop of JSConv<std::vector<T>>::from over the stored elements i+1..: the
\* first element that fails ends it with a TypeError and an empty vector.
ElementError(i) ==
    "TypeError: array element at index " \o NumberText(i) \o " conversion failed"
RECURSIVE vector_elements(_, _, _, _, _)
\* A variant of the loop's failure branch that returns what was converted so far.
vector_element_Partial(T, v, i, acc, r) ==
    IF ~r.ok THEN Converted(FALSE, NVector(acc, 0), ElementError(i))
    ELSE vector_elements(T, v, i + 1, Append(acc, r.val.n), r.pending)

vector_element(T, v, i, acc, r) ==
    IF ~r.ok
    THEN Converted(FALSE, NVector(<< >>, 0), ElementError(i))
    ELSE vector_elements(T, v, i + 1, Append(acc, r.val.n), r.pending)
vector_elements(T, v, i, acc, pending) ==
    IF i >= Len(v.el) \/ i >= v.n THEN Converted(TRUE, NVector(acc, 0), pending)
    ELSE vector_element(T, v, i, acc,
                        JSConv_scalar_from(T, JS_GetPropertyUint32(v, i), pending))

\* if (len > MAX_ARRAY_LENGTH)
\* A variant of the test that refuses the cap itself.
vector_tooLong_AtCap(len) == len >= MAX_ARRAY_LENGTH

vector_tooLong(len) == len > MAX_ARRAY_LENGTH

\* JSConv<std::vector<T>>::from.  The indices past the stored elements all read
\* as undefined and convert alike, so they are converted once and counted.
vector_holes(d, holes, h) ==
    IF ~d.ok \/ holes = 0 THEN d
    ELSE IF ~h.ok
         THEN Converted(FALSE, NVector(<< >>, 0), ElementError(Len(d.val.el)))
    ELSE Converted(TRUE, NVector(d.val.el, holes), h.pending)
vector_stored(T, v, d) ==
    vector_holes(d, IF v.n > Len(v.el) THEN v.n - Len(v.el) ELSE 0,
                 JSConv_scalar_from(T, RestValue(v), d.pending))
JSConv_vector_from(T, v, pending) ==
    IF v.t # "array" THEN Converted(FALSE, NVector(<< >>, 0), "TypeError: expected array")
    ELSE IF vector_tooLong(v.n)
         THEN Converted(FALSE, NVector(<< >>, 0), "RangeError: array length exceeds maximum")
    ELSE vector_stored(T, v, vector_elements(T, v, 0, << >>, pending))

\* JSConv<T>::from for the parameter type T.
JSConv_from(T, v, pending) ==
    IF T \in ScalarTypes THEN JSConv_scalar_from(T, v, pending)
    ELSE JSConv_vector_from(ElementType(T), v, pending)

\* JSConv<T>::to for the scalar types.  JS_NewString(c, v.c_str()) takes the
\* characters up to the first NUL.
JSConv_to(T, nv) ==
    CASE T = "int" -> JSNumber(nv.n)
      [] T = "int64" -> JS_NewInt64(nv.el)
      [] T = "double" -> IF nv.t = "nan" THEN JS_NAN ELSE JSNumber(nv.n)
      [] T = "float" -> IF nv.t = "nan" THEN JS_NAN ELSE JSNumber(nv.n)
      [] T = "bool" -> JSBoolean(nv.n = 1)
      [] T = "string" -> JSString(nv.s)

\* The native scalar of type T whose number is n.
NativeScalar(T, n) == IF T = "int" THEN NInt(n) ELSE NDouble(n)

\* JSConv<std::vector<T>>::to: a new array, then JS_SetPropertyUint32 of the
\* converted element at each index.
JSConv_vector_to(T, nv) ==
    JSVal("array", Len(nv.el) + nv.fill, IF T = "int" THEN "0" ELSE "NaN",
          [i \in 1..Len(nv.el) |-> JSConv_to(T, NativeScalar(T, nv.el[i]))])

\* The calls of JS_GetPropertyUint32 that JSConv<std::vector<T>>::from makes:
\* none for a value that is no array or is too long, else one per index up to
\* and including the first whose conversion fails.
FailingIndices(T, v) ==
    {i \in 0..(Min(Len(v.el), v.n) - 1) :
        ~JSConv_scalar_from(T, JS_GetPropertyUint32(v, i), NoException).ok}
    \cup {i \in {Len(v.el)} : /\ v.n > Len(v.el)
                               /\ ~JSConv_scalar_from(T, RestValue(v), NoException).ok}
vector_reads(T, v) ==
    IF v.t # "array" \/ vector_tooLong(v.n) THEN 0
    ELSE IF FailingIndices(T, v) = {} THEN v.n
    ELSE 1 + CHOOSE i \in FailingIndices(T, v) : \A j \in FailingIndices(T, v) : i <= j

----------------------------------------------------------------------------
(* The callable wrapper FuncWrap<Ret, Args...>.                            *)

\* The registered functions of the model: parameter types and return type.
Wrappers ==
    {[name |-> "add", params |-> <<"int", "int">>, ret |-> "int"],
     [name |-> "print", params |-> <<"string">>, ret |-> "void"],
     [name |-> "total", params |-> <<"vector<int>">>, ret |-> "int"],
     [name |-> "rectangle", params |-> <<"double", "bool">>, ret |-> "void"],
     [name |-> "half", params |-> <<"double">>, ret |-> "double"],
     [name |-> "getWidth", params |-> << >>, ret |-> "int"]}

\* What the native function returns for the converted arguments.
NativeApply(w, a) ==
    CASE w.name = "add" -> NInt(a[1].n + a[2].n)
      [] w.name = "total" -> NInt(Len(a[1].el) + a[1].fill)
      [] w.name = "half" -> a[1]
      [] w.name = "getWidth" -> NInt(7)
      [] OTHER -> NVoid

\* unpack_impl: the fold ((ok = ok && convert(I)), ...) over the parameters from
\* index i on.  conv lists the indices whose conversion was called.
RECURSIVE unpack_impl(_, _, _, _, _, _, _)
unpack_one(params, argv, i, vals, conv, r) ==
    unpack_impl(params, argv, i + 1, r.ok, Append(vals, r.val), Append(conv, i), r.pending)
unpack_impl(params, argv, i, ok, vals, conv, pending) ==
    IF i > Len(params) THEN [ok |-> ok, vals |-> vals, conv |-> conv, pending |-> pending]
    ELSE IF ~ok THEN unpack_impl(params, argv, i + 1, FALSE, vals, conv, pending)
    ELSE unpack_one(params, argv, i, vals, conv, JSConv_from(params[i], argv[i], pending))

\* unpackArgs
unpackArgs(params, argv, pending) == unpack_impl(params, argv, 1, TRUE, << >>, << >>, pending)

\* if (argc != expected)
\* A variant of the count test that accepts surplus arguments.
arityMismatch_TooFewOnly(argc, expected) == argc < expected

arityMismatch(argc, expected) == argc # expected

\* What a call leaves: status "value" with the value returned, or "exception"
\* with, in observed, the exception the script catches; invoked counts the calls
\* of the native function, nativeArgs is what it was called with, converted the
\* argument indices whose conversion was called and marshal the exception the
\* marshalling rules left pending.
CallResult(status, ret, observed, invoked, nativeArgs, converted, marshal) ==
    [status |-> status, ret |-> ret, observed |-> observed, invoked |-> invoked,
     nativeArgs |-> nativeArgs, converted |-> converted, marshal |-> marshal]

\* FuncWrap::call when unpackArgs reported a failure (r): the pending exception is
\* taken from the channel (g) and tested for being the JS_EXCEPTION marker.
FuncWrap_call_failed(r, g) ==
    IF ~JS_IsException(g.thrown)
    THEN CallResult("exception", JS_UNDEFINED, "TypeError: argument type conversion failed",
                    0, << >>, r.conv, r.pending)
    ELSE CallResult("exception", JS_UNDEFINED, g.pending, 0, << >>, r.conv, r.pending)

\* FuncWrap::call after unpackArgs gave r.
\* A variant of the call that goes on to the native function whether or not
\* the arguments converted.
FuncWrap_call_unpacked_Unchecked(w, r) ==
    CallResult("value", JS_UNDEFINED, NoException, 1, r.vals, r.conv, r.pending)

FuncWrap_call_unpacked(w, r) ==
    IF ~r.ok THEN FuncWrap_call_failed(r, JS_GetException(r.pending))
    ELSE IF w.ret = "void"
         THEN CallResult("value", JS_UNDEFINED, NoException, 1, r.vals, r.conv, r.pending)
    ELSE CallResult("value", JSConv_to(w.ret, NativeApply(w, r.vals)), NoException,
                    1, r.vals, r.conv, r.pending)

\* FuncWrap::call, entered with no exception pending.
FuncWrap_call(w, argv) ==
    IF arityMismatch(Len(argv), Len(w.params))
    THEN CallResult("exception", JS_UNDEFINED, "TypeError: expected exactly N arguments",
                    0, << >>, << >>, NoException)
    ELSE FuncWrap_call_unpacked(w, unpackArgs(w.params, argv, NoException))

----------------------------------------------------------------------------
(* The specification of the wrapper's calls: every registered function is  *)
(* called from script with every argument list of the domain.              *)

ArgLists == UNION {[1..k -> ArgValues] : k \in 0..MaxArgs}

\* The result of a call that has not been made.
NotCalled == CallResult("none", JS_UNDEFINED, NoException, 0, << >>, << >>, NoException)

\* A script is about to call w with argv.
CallInit ==
    /\ EngineInit
    /\ comp = CompIdle
    /\ lastCall \in [called : {FALSE}, w : Wrappers, argv : ArgLists, out : {NotCalled}]

\* The runtime enters callFunc, which hands the call to the wrapper.
ScriptCall ==
    /\ ~lastCall.called
    /\ lastCall' = [lastCall EXCEPT !.called = TRUE,
                                    !.out = FuncWrap_call(lastCall.w, lastCall.argv)]
    /\ UNCHANGED <<engineVars, runtimeVars, ghostVars, comp>>

CallNext == ScriptCall

CallSpec == CallInit /\ [][CallNext]_vars

----------------------------------------------------------------------------
(* JSEngine::compile, statement by statement.  The call works on locals:  *)
(* a disposable runtime and context, the compiled unit, the result.  Each  *)
(* step is given the engine as well, so that what a step does to the       *)
(* shared state is part of what it returns.  ok tells whether the          *)
(* allocation the step makes succeeds.                                     *)

\* CompileResult result;  and the locals of the call.  rtMade .. ctxFreed count
\* the calls of JS_NewRuntime, JS_FreeRuntime, JS_NewContext, JS_FreeContext;
\* loads are the calls the runtime made to compileModuleLoader.
NoBytes == [valid |-> FALSE, isModule |-> FALSE, script |-> NoScript]
CompileResult(success, error, bytecode) ==
    [success |-> success, error |-> error, bytecode |-> bytecode]

compile_enter(code) ==
    [pc |-> "start", code |-> code, faults |-> {},
     rt |-> FALSE, ctx |-> FALSE,
     rtMade |-> 0, rtFreed |-> 0, ctxMade |-> 0, ctxFreed |-> 0,
     loads |-> << >>, result |-> CompileResult(FALSE, "", NoBytes)]

Compiling(e, c) == [eng |-> e, comp |-> c]

\* The allocation of the step at pc is made to fail.
Fails(c, ok) == [c EXCEPT !.faults = IF ok THEN @ ELSE @ \cup {c.pc}]

\* JS_FreeContext(ctx); JS_FreeRuntime(rt); on the locals.
compile_freeContext(c) == [c EXCEPT !.ctx = FALSE, !.ctxFreed = @ + 1]
compile_freeRuntime(c) == [c EXCEPT !.rt = FALSE, !.rtFreed = @ + 1]

\* return result;
compile_return(c, result) == [c EXCEPT !.pc = "returned", !.result = result]

\* JSRuntime* rt = JS_NewRuntime(); if (!rt) { ...; return result; }
\* A variant that keeps the new runtime in the shared rt_.
compile_newRuntime_Shared(e, c, ok) ==
    Compiling([e EXCEPT !.rt = 99], [c EXCEPT !.pc = "rt", !.rt = TRUE, !.rtMade = @ + 1])

compile_newRuntime(e, c, ok) ==
    IF ~ok
    THEN Compiling(e, compile_return(Fails(c, ok),
                                     CompileResult(FALSE, "Failed to create JS runtime", NoBytes)))
    ELSE Compiling(e, [c EXCEPT !.pc = "rt", !.rt = TRUE, !.rtMade = @ + 1])

\* JSContext* ctx = JS_NewContext(rt); if (!ctx) { ...; JS_FreeRuntime(rt); return result; }
compile_newContext(e, c, ok) ==
    IF ~ok
    THEN Compiling(e, compile_return(compile_freeRuntime(Fails(c, ok)),
                                     CompileResult(FALSE, "Failed to create JS context", NoBytes)))
    ELSE Compiling(e, [c EXCEPT !.pc = "ctx", !.ctx = TRUE, !.ctxMade = @ + 1])

\* A module definition JS_NewCModule made with an initializer that does nothing,
\* and the export names JS_AddModuleExport declared on it.
StubDef(name, exports) == <<"stub", name, exports>>

\* if (strcmp(moduleName, "graphics") == 0) { const char* exports[] = {...}; ... }
compileModuleLoader_exports(name) ==
    IF name = "graphics"
    THEN {"setWindow", "clear", "present", "setColor", "circle", "rectangle", "line",
          "print", "getWidth", "getHeight"}
    ELSE {}

\* The names initGraphicsModule registers on the module "graphics": its
\* functions and its colour constants.
initGraphicsModule_names ==
    {"setWindow", "getWindowSize", "clear", "present", "setColor", "point", "line",
     "rectangle", "circle", "loadTexture", "drawTexture", "push", "pop", "translate",
     "rotate", "scale", "print"}
    \cup {"WHITE", "BLACK", "RED", "GREEN", "BLUE", "YELLOW", "CYAN", "MAGENTA"}

\* What is recorded of a call of compileModuleLoader.
LoaderCall(name, opened, def, exc) ==
    [name |-> name, opened |-> opened, def |-> def, exc |-> exc]

\* JSEngine::compileModuleLoader: the file of that name compiled as a module
\* when it can be read and compiles, otherwise a stub; a ReferenceError only
\* when the stub cannot be made.
compileModuleLoader(name, ok) ==
    LET path == withDefaultExtension(name)
        opened == IF path \in ReadableFiles THEN path ELSE "none"
    IN IF path \in ReadableFiles /\ path \in CompilableFiles
       THEN LoaderCall(name, opened, ScriptDef(name), "none")
       ELSE IF ok
            THEN LoaderCall(name, opened, StubDef(name, compileModuleLoader_exports(name)), "none")
       ELSE LoaderCall(name, opened, NoModule, "ReferenceError")

\* JS_Eval with JS_EVAL_TYPE_MODULE | JS_EVAL_FLAG_COMPILE_ONLY on the disposable
\* context: the text is parsed and its import is resolved by the loader set on
\* the disposable runtime; nothing is run.
JS_Eval_compileOnly(code, ok) ==
    IF ~Parses(code) THEN [exc |-> "SyntaxError", loads |-> << >>]
    ELSE IF code.imp = "none" THEN [exc |-> "none", loads |-> << >>]
    ELSE [exc |-> compileModuleLoader(code.imp, ok).exc,
          loads |-> << compileModuleLoader(code.imp, ok) >>]

\* The exception branch of compile: the message is taken, the context and the
\* runtime are freed.
\* A variant of the branch that returns with the context freed and the runtime not.
compile_failed_RuntimeKept(c, exc) ==
    compile_return(compile_freeContext(c), CompileResult(FALSE, exc, NoBytes))

compile_failed(c, exc) ==
    compile_return(compile_freeRuntime(compile_freeContext(c)),
                   CompileResult(FALSE, exc, NoBytes))

\* JS_SetModuleLoaderFunc(rt, nullptr, compileModuleLoader, nullptr);
\* JSValue obj = JS_Eval(...); if (JS_IsException(obj)) { ... return result; }
compile_evaluated(c, r) ==
    IF r.exc # "none" THEN compile_failed([c EXCEPT !.loads = r.loads], r.exc)
    ELSE [c EXCEPT !.pc = "compiled", !.loads = r.loads]

compile_eval(e, c, ok) ==
    Compiling(e, compile_evaluated(Fails(c, ok \/ c.code.imp = "none" \/ ~Parses(c.code)),
                                   JS_Eval_compileOnly(c.code, ok)))

\* JS_WriteObject(ctx, &outSize, obj, JS_WRITE_OBJ_BYTECODE): the unit is written
\* as a module, with the names it imports.
\* A variant that writes the unit as a plain function.
JS_WriteObject_Function(code) == [valid |-> TRUE, isModule |-> FALSE, script |-> code]

JS_WriteObject(code) == [valid |-> TRUE, isModule |-> TRUE, script |-> code]

\* uint8_t* outBuf = JS_WriteObject(...); JS_FreeValue(ctx, obj);
\* if (!outBuf) { ...; return result; }  result.bytecode.assign(...); ...
\* A variant that fills the bytes and the message before it sets the flag.
compile_write_Both(e, c, ok) ==
    Compiling(e, compile_return(compile_freeRuntime(compile_freeContext(Fails(c, ok))),
                                CompileResult(ok, "Failed to serialize bytecode",
                                              JS_WriteObject(c.code))))

compile_write(e, c, ok) ==
    IF ~ok
    THEN Compiling(e, compile_return(compile_freeRuntime(compile_freeContext(Fails(c, ok))),
                                     CompileResult(FALSE, "Failed to serialize bytecode", NoBytes)))
    ELSE Compiling(e, compile_return(compile_freeRuntime(compile_freeContext(c)),
                                     CompileResult(TRUE, "", JS_WriteObject(c.code))))

\* The statement compile is at.
compile_step(e, c, ok) ==
    CASE c.pc = "start" -> compile_newRuntime(e, c, ok)
      [] c.pc = "rt" -> compile_newContext(e, c, ok)
      [] c.pc = "ctx" -> compile_eval(e, c, ok)
      [] c.pc = "compiled" -> compile_write(e, c, ok)

\* JSEngine::compile run from its entry to its return with nothing in between;
\* faults are the statements whose allocation fails.
RECURSIVE compile_run(_, _, _)
compile_run(e, c, faults) ==
    IF c.pc = "returned" THEN Compiling(e, c)
    ELSE compile_run(compile_step(e, c, c.pc \notin faults).eng,
                     compile_step(e, c, c.pc \notin faults).comp, faults)

compile(e, code, faults) == compile_run(e, compile_enter(code), faults)

----------------------------------------------------------------------------
(* The specification of compile running beside the engine: a thread makes  *)
(* compile calls, one statement at a time, while the engine's operations   *)
(* are called on the main thread.                                          *)

\* The sources compile is given: a script that imports a native module, a
\* script module, a file that does not compile, a name nothing defines; a
\* script that exports a function; one whose body throws; a text that does
\* not parse.
CompileSources ==
    {[imp |-> "math", throws |-> FALSE, def |-> "none"],
     [imp |-> "util", throws |-> FALSE, def |-> "none"],
     [imp |-> "bad", throws |-> FALSE, def |-> "none"],
     [imp |-> "ghost", throws |-> FALSE, def |-> "none"],
     [imp |-> "none", throws |-> FALSE, def |-> "export_throw"],
     [imp |-> "none", throws |-> TRUE, def |-> "none"],
     [imp |-> "none", throws |-> FALSE, def |-> "unparsable"]}

\* The scripts the main thread evaluates directly.
DirectSources ==
    {[imp |-> "math", throws |-> FALSE, def |-> "none"],
     [imp |-> "none", throws |-> FALSE, def |-> "global_ok"]}

StartCompile(code) ==
    /\ ~crashed
    /\ comp.pc \in {"idle", "returned"}
    /\ comp' = compile_enter(code)
    /\ UNCHANGED <<engineVars, runtimeVars, ghostVars, lastCall>>

CompileStep ==
    /\ ~crashed
    /\ comp.pc \notin {"idle", "returned"}
    /\ \E ok \in BOOLEAN :
          \E r \in {compile_step(Cur, comp, ok)} :
             /\ Becomes(r.eng)
             /\ comp' = r.comp
    /\ UNCHANGED <<rtCreated, ctxCreated, rootCreated, wrappersMade, passedCheck,
                   reachedEval, lastOp, cleanupTrace, lastCall>>

\* runBytecode on the bytes the last compile call produced.
RunCompiled ==
    /\ comp.pc = "returned"
    /\ comp.result.success
    /\ RunBytecode(comp.result.bytecode)

\* The operations of the main thread.
EngineCall ==
    \/ Initialize
    \/ \E m \in ModuleNames : Module(m)
    \/ Cleanup
    \/ \E path \in RunPaths : RunFile(path)
    \/ \E s \in DirectSources : RunFileInline(s)
    \/ RunCompiled
    \/ CallGlobal("load", 0)

CompileNext ==
    \/ \E code \in CompileSources : StartCompile(code)
    \/ CompileStep
    \/ EngineCall

CompileSpec == Init /\ [][CompileNext]_vars

----------------------------------------------------------------------------
(* The specification of the two install strategies and the resolution     *)
(* hook: native modules are registered (a top-level module with a function,*)
(* a nested module with a constant, a module named like a script file) and *)
(* scripts that import by name are evaluated.                              *)

\* The nested module, and the names scripts import: the native modules, the
\* script file with and without its extension, a name nothing defines.
NestedPath == <<"math", "color">>
HookNames == TopLevelNames \cup {"util.js", "ghost"}
InstallSources ==
    {[imp |-> n, throws |-> FALSE, def |-> "none"] : n \in HookNames \cup {"none"}}

InstallNext ==
    \/ Initialize
    \/ \E m \in TopLevelNames : Module(m)
    \/ \E n \in FuncNames : Func(<<"math">>, n)
    \/ \E n \in ValueNames, c \in ValueConsts : Value(NestedPath, n, c)
    \/ Cleanup
    \/ \E s \in InstallSources : RunFileInline(s)

InstallSpec == Init /\ [][InstallNext]_vars

----------------------------------------------------------------------------
(* Properties of the engine's lifecycle, checked under Spec.               *)

\* A step that is a call of an execution entry point.
ExecCall ==
    \/ \E path \in RunPaths : RunFile(path)
    \/ \E s \in Scripts : RunFileInline(s)
    \/ \E b \in Bytecodes : RunBytecode(b)
    \/ \E name \in CallNames, argc \in 0..MaxCallArgs : CallGlobal(name, argc)

\* C1: once cleanup has run on an initialized engine, every call of callGlobal,
\* runFile (both forms) and runBytecode returns false, uses neither the runtime
\* nor the context, and leaves the engine's state (installed flag, handle map,
\* module cache and the rest) and the runtime's state as they were.
C1_RejectedAfterCleanup ==
    [][(cleanedUp_ /\ ExecCall)
         => /\ lastOp'.ret = "false"
            /\ ~lastOp'.touched
            /\ UNCHANGED <<engineVars, runtimeVars>>]_vars

\* An execution call was made after cleanup, on an engine that holds a context
\* again (initialize was called once more in between).
C1_Witness ==
    /\ cleanedUp_
    /\ ctx_ # NULLPTR
    /\ lastOp.op \in {"runFile", "runFileInline", "runBytecode", "callGlobal"}

\* C2: once cleanup has run, no later call constructs a runtime, a context or a
\* root module node.
C2_CleanedUpIsTerminal ==
    [][cleanedUp_
         => /\ rtCreated' = rtCreated
            /\ ctxCreated' = ctxCreated
            /\ rootCreated' = rootCreated]_vars

\* C3: while the shared runtime is alive, every wrapper a runtime function holds
\* a handle to is owned by the module tree; this includes the states cleanup
\* passes through.
C3_HeldWrappersAlive ==
    /\ rt_ # NULLPTR => handles \subseteq WrappersIn(global_)
    /\ \A i \in 1..Len(cleanupTrace) :
          cleanupTrace[i].rtAlive => cleanupTrace[i].dangling = {}

\* C8 as stated: the walk happens at most once, and it has happened as soon as
\* an evaluation call has passed the lifecycle check.
C8_WalkOnFirstCheckedCall ==
    /\ installWalks <= 1
    /\ passedCheck => installWalks = 1

\* C8, amended: the walk happens at most once, and it has happened exactly when
\* an evaluation call has reached the evaluation (runBytecode and the inline
\* runFile once past the lifecycle check, the path form of runFile once it has
\* also opened its file).
C8_WalkOnFirstEvaluation ==
    /\ installWalks <= 1
    /\ reachedEval <=> installWalks = 1
    /\ reachedEval <=> installed_

\* Evaluations were made after the one that installed: a script imports one
\* module, and two have been loaded.
C8_Witness ==
    /\ installWalks = 1
    /\ loaded = {"math", "util"}
    /\ lastOp.op \in {"runFile", "runFileInline", "runBytecode"}
    /\ lastOp.ret = "true"

\* C9: before cleanup, initialize constructs one runtime and one context however
\* often it is called, and a call on an initialized engine changes nothing.
C9_InitializeIdempotent ==
    [][~cleanedUp_
         => /\ rtCreated' <= 1
            /\ ctxCreated' <= 1
            /\ (Initialize /\ rt_ = NULLPTR) => (rtCreated' = 1 /\ ctxCreated' = 1)
            /\ (Initialize /\ rt_ # NULLPTR) => UNCHANGED <<engineVars, runtimeVars>>]_vars

\* initialize was called on an engine that was initialized and not cleaned up.
C9_Witness ==
    /\ ~cleanedUp_
    /\ rt_ # NULLPTR
    /\ lastOp.op = "initialize"
    /\ ~lastOp.touched

CleanupOrder == <<"clearMaps", "gc", "freeContext", "freeRuntime", "resetRoot">>

\* C10: an effective cleanup drops the handle map and the module cache, runs the
\* collector, frees the context, frees the runtime and then destroys the module
\* tree, in this order: the tree is as it was until the runtime is gone.
C10_CleanupOrder ==
    cleanupTrace # << >> =>
        /\ [i \in 1..Len(cleanupTrace) |-> cleanupTrace[i].step] = CleanupOrder
        /\ \A i \in 1..Len(cleanupTrace) :
              /\ cleanupTrace[i].mapsEmpty
              /\ cleanupTrace[i].ctxAlive <=> i <= 2
              /\ cleanupTrace[i].rtAlive <=> i <= 3
              /\ i <= 4 => (cleanupTrace[i].rootAlive <=> cleanupTrace[1].rootAlive)
              /\ i = 5 => ~cleanupTrace[i].rootAlive

\* A cleanup that found a module tree: the tree is still there in the state the
\* freeing of the runtime leaves.
C10_Witness ==
    /\ Len(cleanupTrace) = 5
    /\ cleanupTrace[4].step = "freeRuntime"
    /\ cleanupTrace[4].rootAlive

----------------------------------------------------------------------------
(* Properties of the wrapper's call, checked under CallSpec.               *)

\* An argument of the declared type: a number for int and double, text for
\* string, a boolean for bool, an array of stored numbers within the cap for
\* vector<int>.
TypeMatches(T, v) ==
    CASE T \in {"int", "double"} -> v.t = "number"
      [] T = "string" -> v.t = "string"
      [] T = "bool" -> v.t = "boolean"
      [] OTHER -> /\ v.t = "array"
                  /\ v.n <= MAX_ARRAY_LENGTH
                  /\ Len(v.el) = v.n
                  /\ \A i \in 1..Len(v.el) : v.el[i].t = "number"

\* The native value of an argument of the declared type.
NativeOf(T, v) ==
    CASE T = "int" -> NInt(v.n)
      [] T = "double" -> NDouble(v.n)
      [] T = "string" -> NString(v.s)
      [] T = "bool" -> NBool(v.n = 1)
      [] OTHER -> NVector([i \in 1..Len(v.el) |-> v.el[i].n], 0)

Arity(c) == Len(c.w.params)
ArityOk(c) == Len(c.argv) = Arity(c)
Converts(c, i) == JSConv_from(c.w.params[i], c.argv[i], NoException).ok
\* The arguments before the first one that fails to convert, and that one.
FailingArgs(c) == {i \in 1..Arity(c) : ~Converts(c, i)}
FirstFailing(c) == CHOOSE i \in FailingArgs(c) : \A j \in FailingArgs(c) : i <= j

C5_InvokedOnceAfterConversion ==
    lastCall.called =>
        /\ lastCall.out.invoked \in {0, 1}
        /\ lastCall.out.invoked = 1 =>
              /\ ArityOk(lastCall)
              /\ FailingArgs(lastCall) = {}
              /\ lastCall.out.converted = [i \in 1..Arity(lastCall) |-> i]
        /\ (ArityOk(lastCall)
            /\ \A i \in 1..Arity(lastCall) :
                  TypeMatches(lastCall.w.params[i], lastCall.argv[i])) =>
              LET args == [i \in 1..Arity(lastCall) |->
                             NativeOf(lastCall.w.params[i], lastCall.argv[i])]
              IN /\ lastCall.out.invoked = 1
                 /\ lastCall.out.status = "value"
                 /\ lastCall.out.nativeArgs = args
                 /\ lastCall.out.ret =
                       IF lastCall.w.ret = "void" THEN JS_UNDEFINED
                       ELSE JSConv_to(lastCall.w.ret, NativeApply(lastCall.w, args))

\* add(2, 3) was called and gave 5.
C5_Witness ==
    /\ lastCall.called
    /\ lastCall.w.name = "add"
    /\ lastCall.argv = <<JSNumber(2), JSNumber(3)>>
    /\ lastCall.out.invoked = 1
    /\ lastCall.out.ret = JSNumber(5)

\* C6: with the right count, the arguments are converted from the left up to
\* the first that fails, the native function is not called, and the exception
\* the script observes is the one the marshalling rule raised for that argument.
C6_MarshallingErrorObserved ==
    (lastCall.called /\ ArityOk(lastCall) /\ FailingArgs(lastCall) # {}) =>
        /\ lastCall.out.converted = [i \in 1..FirstFailing(lastCall) |-> i]
        /\ lastCall.out.invoked = 0
        /\ lastCall.out.status = "exception"
        /\ lastCall.out.marshal # NoException =>
              lastCall.out.observed = lastCall.out.marshal

\* C7: a call that passes text which is no numeral for an int or double
\* parameter fails with an exception and does not call the native function.
C7_TextForNumberRejected ==
    (/\ lastCall.called
     /\ ArityOk(lastCall)
     /\ \E i \in 1..Arity(lastCall) :
           /\ lastCall.w.params[i] \in {"int", "double"}
           /\ lastCall.argv[i] = JSString("x")) =>
        /\ lastCall.out.status = "exception"
        /\ lastCall.out.invoked = 0

----------------------------------------------------------------------------
(* Further properties of the lifecycle, checked under Spec.                *)

\* C11: cleanup is idempotent: a cleanup call made after cleanup has run frees
\* neither a context nor a runtime and leaves the engine's state and the
\* runtime's state as they were.
C11_CleanupIdempotent ==
    [][(cleanedUp_ /\ Cleanup) => UNCHANGED <<engineVars, runtimeVars>>]_vars


----------------------------------------------------------------------------
(* Properties of compile, checked under CompileSpec.                       *)

\* C12: compile neither reads nor writes the shared engine state: a statement
\* of compile leaves the engine's state and the shared runtime's state as they
\* were, in whatever lifecycle state it runs; an operation of the engine leaves
\* the compile call as it was; and the result compile returns with the engine's
\* operations interleaved is the result of compile run alone on that source.
C12_CompileIsolated ==
    [][/\ CompileStep => UNCHANGED <<engineVars, runtimeVars>>
       /\ EngineCall => UNCHANGED comp
       /\ (CompileStep /\ comp'.pc = "returned")
             => comp'.result = compile(Cur, comp.code, comp'.faults).comp.result]_vars

\* A compile call holds its disposable runtime and context and has compiled its
\* source, on an engine that has been initialized and cleaned up meanwhile.
C12_Witness ==
    /\ comp.pc = "compiled"
    /\ comp.rt /\ comp.ctx
    /\ cleanedUp_
    /\ rt_ = NULLPTR
    /\ lastOp.op = "cleanup"

\* C13: compile frees no disposable runtime or context twice, and when it
\* returns, on whichever path, every runtime and context it created has been
\* freed once and none is left.
C13_DisposablesFreed ==
    comp.pc # "idle" =>
        /\ comp.rtMade <= 1 /\ comp.ctxMade <= 1
        /\ comp.rtFreed <= comp.rtMade /\ comp.ctxFreed <= comp.ctxMade
        /\ comp.rt <=> comp.rtFreed < comp.rtMade
        /\ comp.ctx <=> comp.ctxFreed < comp.ctxMade
        /\ comp.pc = "returned" =>
              /\ comp.rtFreed = comp.rtMade /\ comp.ctxFreed = comp.ctxMade

\* compile returned on its exception path, having made and freed a runtime and
\* a context: the source does not parse.
C13_Witness ==
    /\ comp.pc = "returned"
    /\ ~comp.result.success
    /\ comp.result.error = "SyntaxError"
    /\ comp.rtMade = 1 /\ comp.rtFreed = 1
    /\ comp.ctxMade = 1 /\ comp.ctxFreed = 1

\* What a caller and the native side observe of an evaluation: what it
\* returned and the calls the runtime made into the engine's hooks.
Effects(outcomes) == {[ret |-> o.ret, calls |-> o.eng.calls] : o \in outcomes}

----------------------------------------------------------------------------
(* Properties of the resolution hook and of the two install strategies,    *)
(* checked under InstallSpec.                                              *)

\* What the hook answers when the runtime calls it for name in this state, and
\* what is recorded of that call.
HookAnswer(name) == loadModule(Cur, name)
HookRecord(name) == HookAnswer(name).eng.calls[1]

\* The hook can be called: the engine holds a context and is not cleaned up.
HookLive == ~cleanedUp_ /\ ctx_ # NULLPTR

\* C15: in every state of a live engine, the hook called for a name that is a
\* top-level child of the root answers with that native module's definition,
\* opens no file and leaves the cache as it is, whether or not a script file
\* or a cache entry of that name exists; for any other name it gives no native
\* definition.
C15_NativeModulesFirst ==
    HookLive =>
        \A name \in HookNames :
           /\ findModule(Cur, name) =>
                 /\ HookAnswer(name).def = NativeDef(name)
                 /\ HookAnswer(name).exc = "none"
                 /\ HookRecord(name).opened = "none"
                 /\ HookAnswer(name).eng.cache = jsModuleCache_
           /\ ~findModule(Cur, name) => HookAnswer(name).def[1] # "native"

\* The file util.js is readable and has been compiled and cached for an import
\* written with its extension; a native module "util" was registered, and the
\* import of "util" was answered with the native definition.
C15_Witness ==
    /\ "util.js" \in ReadableFiles
    /\ \E c \in jsModuleCache_ : c[1] = "util.js"
    /\ findModule(Cur, "util")
    /\ lastOp.op = "runFileInline"
    /\ lastOp.ret = "true"
    /\ lastOp.calls[1] = HookCall("loadModule", "util", NativeDef("util"), "none", "none", 0)

\* C16: no script file has two entries in the compiled-module cache, whether
\* the import names were written with or without the default extension.
C16_OneEntryPerFile ==
    \A c1 \in jsModuleCache_, c2 \in jsModuleCache_ :
        withDefaultExtension(c1[1]) = withDefaultExtension(c2[1]) => c1 = c2

\* The import of the step cannot be resolved in the state the step starts in:
\* the name is not loaded, is no native module, has no cache entry, and no
\* file of that name can be read.
Unresolvable(name) ==
    /\ name \notin loaded
    /\ ~findModule(Cur, name)
    /\ ~\E c \in jsModuleCache_ : c[1] = name
    /\ withDefaultExtension(name) \notin ReadableFiles

\* C17: an evaluation that imports a name which is no native module, has no
\* cache entry and no readable file calls the hook once; the hook raises the
\* module-not-found error and returns no module; the cache and the handle map
\* are as before; the evaluation returns false with the error delivered to
\* the sink.
C17_ModuleNotFound ==
    [][\A s \in InstallSources :
          (/\ HookLive
           /\ s.imp # "none"
           /\ Unresolvable(s.imp)
           /\ RunFileInline(s)
           /\ ~crashed')
          => /\ lastOp'.calls =
                   <<HookCall("loadModule", s.imp, NoModule, "ReferenceError", "none", 0)>>
             /\ jsModuleCache_' = jsModuleCache_
             /\ modData_' = modData_
             /\ loaded' = loaded
             /\ lastOp'.ret = "false"
             /\ lastOp'.sunk = 1]_vars

\* A script that imports "ghost" was evaluated on an engine that has a native
\* module and a cached script module; the cache and the handle map hold what
\* they held.
C17_Witness ==
    /\ lastOp.op = "runFileInline"
    /\ lastOp.ret = "false"
    /\ Len(lastOp.calls) = 1
    /\ lastOp.calls[1].name = "ghost"
    /\ lastOp.calls[1].exc = "ReferenceError"
    /\ jsModuleCache_ # {}
    /\ modData_ # {}


\* The function, value and child names the node of the top-level module m has.
NodeNames(m) ==
    {n \in PropNames :
        \/ n \in FuncNames /\ global_[<<m>>].funcs[n] # 0
        \/ n \in ValueNames /\ global_[<<m>>].values[n] # 0
        \/ <<m, n>> \in DOMAIN global_}

\* The calls of a sequence that are the hook's answer with m's native
\* definition, and those that are the initialization callback on it.
DeclaredAt(calls, m) ==
    {i \in 1..Len(calls) : calls[i].fn = "loadModule" /\ calls[i].def = NativeDef(m)}
BoundAt(calls, m) ==
    {i \in 1..Len(calls) : calls[i].fn = "initModule" /\ calls[i].def = NativeDef(m)}

\* C18: in a step that builds the definition of a native module m, the hook
\* declares the export names and records the handle, and the initialization
\* callback runs afterwards and succeeds; the names declared are the function,
\* value and child names of m's node, and the names bound are the names
\* declared.  In every state, the callback returns -1 for a handle that the
\* handle map does not hold.
C18_TwoPhaseInstall ==
    [][\A m \in TopLevelNames :
          /\ (moduleExports[m].state = "none" /\ moduleExports'[m].state # "none")
                => /\ \E i \in DeclaredAt(lastOp'.calls, m) :
                         \E j \in BoundAt(lastOp'.calls, m) :
                            i < j /\ lastOp'.calls[j].rc = 0
                   /\ \E d \in modData_' : d[1] = NativeDef(m) /\ d[2] = <<m>>
                   /\ moduleExports'[m].declared = NodeNames(m)
                   /\ moduleExports'[m].state = "bound"
                   /\ {n \in PropNames : moduleExports'[m].graph[<< >>][n] # AbsentProp}
                         = moduleExports'[m].declared
          /\ (~\E d \in modData_ : d[1] = NativeDef(m))
                => initModule(Cur, NativeDef(m)).rc = -1]_vars

\* The module "math" with a function and a nested module was imported: its
\* two names were declared by the hook and then bound by the callback.
C18_Witness ==
    /\ moduleExports["math"].state = "bound"
    /\ moduleExports["math"].declared = {"f", "color"}
    /\ Len(lastOp.calls) = 2
    /\ lastOp.calls[1].fn = "loadModule"
    /\ lastOp.calls[2].fn = "initModule"
    /\ lastOp.calls[2].rc = 0

\* The property a function or a constant registered at p under n is installed as.
Registered(p, n) ==
    IF n \in FuncNames /\ global_[p].funcs[n] # 0 THEN createJSFunction(global_[p].funcs[n])
    ELSE IF n \in ValueNames /\ global_[p].values[n] # 0 THEN creator(global_[p].values[n])
    ELSE AbsentProp

\* Both install strategies have been applied to the top-level module m.
BothInstalled(m) ==
    /\ rt_ # NULLPTR
    /\ installed_
    /\ moduleExports[m].state = "bound"

\* C19 as stated: once a top-level module m has been installed both ways, every
\* function and constant registered at m or at a chain of nested children below
\* it is found at that path with that value below the global object and below
\* m's exports.
C19_SameUnderBothInstalls ==
    \A m \in TopLevelNames :
        BothInstalled(m) =>
            \A p \in DOMAIN global_ : \A n \in FuncNames \cup ValueNames :
                (p # Root /\ p[1] = m /\ Registered(p, n) # AbsentProp) =>
                    /\ p \in DOMAIN childObjs
                    /\ childObjs[p][n] = Registered(p, n)
                    /\ Tail(p) \in DOMAIN moduleExports[m].graph
                    /\ moduleExports[m].graph[Tail(p)][n] = Registered(p, n)

\* C19, amended: once a top-level module m has been installed both ways, every
\* function and constant that was registered at m or below it before the first
\* evaluation (it is found below the global object) and has not been
\* registered again since (the tree still holds it) is found at the same path
\* with the same value below m's exports.
C19_SameForEarlyRegistrations ==
    \A m \in TopLevelNames :
        BothInstalled(m) =>
            \A p \in DOMAIN childObjs : \A n \in FuncNames \cup ValueNames :
                (/\ p[1] = m
                 /\ childObjs[p][n] # AbsentProp
                 /\ p \in DOMAIN global_
                 /\ Registered(p, n) = childObjs[p][n]) =>
                    /\ Tail(p) \in DOMAIN moduleExports[m].graph
                    /\ moduleExports[m].graph[Tail(p)][n] = childObjs[p][n]

\* "math" with a function and the nested "color" with a constant were
\* registered, then installed both ways: the constant is found at math.color.K
\* below the global object and at color.K below the module's exports.
C19_Witness ==
    /\ BothInstalled("math")
    /\ NestedPath \in DOMAIN childObjs
    /\ childObjs[NestedPath]["K"] = creator(1)
    /\ moduleExports["math"].graph[<<"color">>]["K"] = creator(1)
    /\ childObjs[<<"math">>]["f"].kind = "function"
    /\ moduleExports["math"].graph[<< >>]["f"] = childObjs[<<"math">>]["f"]


----------------------------------------------------------------------------
(* Properties of callGlobal, checked under Spec.                           *)

\* What the global object holds under a name in this state.
KindOf(name) == GetProperty(globalObj, name)
IsCallable(name) == KindOf(name) \in {"native", "script_ok", "script_throw"}

\* The number of JS_FreeValue calls made on v.
TimesFreed(freed, v) == Cardinality({i \in 1..Len(freed) : freed[i] = v})

-----------------------------------------------------------------------------
(* The error sink.  SinkSpec evaluates sources that succeed, that throw an *)
(* Error object, that throw a primitive, that do not parse and that import *)
(* a name nothing resolves, under each error callback the host can set.    *)

SinkSources ==
    {[imp |-> "none", throws |-> FALSE, def |-> "none"],
     [imp |-> "none", throws |-> FALSE, def |-> "global_ok"],
     [imp |-> "none", throws |-> TRUE, def |-> "none"],
     [imp |-> "none", throws |-> FALSE, def |-> "throw_text"],
     [imp |-> "none", throws |-> FALSE, def |-> "unparsable"],
     [imp |-> "ghost", throws |-> FALSE, def |-> "none"]}

SinkNext ==
    \/ Initialize
    \/ Global
    \/ \E callback \in ErrorCallbacks : SetErrorCallback(callback)
    \/ \E s \in SinkSources : RunFileInline(s)
    \/ \E path \in RunPaths : RunFile(path)
    \/ Cleanup

SinkSpec == Init /\ [][SinkNext]_vars

\* The exception the evaluation of a source of SinkSources raises, "none" when
\* it completes.
Raised(s) ==
    IF ~Parses(s) THEN "SyntaxError"
    ELSE IF s.imp = "ghost" THEN "ReferenceError"
    ELSE IF s.throws THEN "Error"
    ELSE IF s.def = "throw_text" THEN "text"
    ELSE "none"

\* The text of an exception: its message, and its stack trace on a new line
\* when it has one.
TextOf(exc) ==
    IF exc = "text" THEN "Error: text"
    ELSE "Error: " \o exc \o " message\n" \o exc \o " stack"

\* The sink in force: the callback most recently set, the diagnostic stream
\* when there is none.
SinkInForce == IF errorCallback_ = NoCallback THEN "stderr" ELSE errorCallback_

\* A step that is runFile(name, code) evaluating the source s on a live engine.
Evaluates(s) ==
    /\ lastOp'.op = "runFileInline"
    /\ ~cleanedUp_
    /\ ctx_ # NULLPTR
    /\ RunFileInline(s)
    /\ ~crashed'

-----------------------------------------------------------------------------
(* The exports of a precompiled module.  ExportSpec runs precompiled units *)
(* that export every set of the names of ExportNames, bound to functions   *)
(* and to constants, and units that are plain functions.                   *)

ExportValues == {"script_ok", "script_const"}
ExportMaps == UNION {[S -> ExportValues] : S \in SUBSET ExportNames}

ModuleUnits ==
    {[valid |-> TRUE, isModule |-> TRUE,
      script |-> [imp |-> "none", throws |-> FALSE, def |-> "exports", exports |-> x]]
     : x \in ExportMaps}

FunctionUnits ==
    {[valid |-> TRUE, isModule |-> FALSE,
      script |-> [imp |-> "none", throws |-> FALSE, def |-> d]] : d \in {"none", "global_ok"}}

ExportNext ==
    \/ Initialize
    \/ Global
    \/ \E n \in FuncNames : Func(Root, n)
    \/ \E b \in ModuleUnits \cup FunctionUnits : RunBytecode(b)
    \/ \E name \in ExportNames : CallGlobal(name, 0)
    \/ Cleanup

ExportSpec == Init /\ [][ExportNext]_vars

\* A step that is runBytecode succeeding on the unit b.
Runs(b) ==
    /\ lastOp'.op = "runBytecode"
    /\ lastOp'.ret = "true"
    /\ ~cleanedUp_
    /\ ctx_ # NULLPTR
    /\ RunBytecode(b)
    /\ ~crashed'

\* The global properties of the model's names once the global install has
\* happened in the state the step starts from.
InstalledBefore(n) ==
    IF installed_ \/ IsNull(global_) THEN globalObj[n]
    ELSE installToObject(globalObj, global_)[n]

-----------------------------------------------------------------------------
(* The conversions on their own.  ConvSpec draws a conversion job in its   *)
(* initial state and carries it out: a native value taken to the runtime   *)
(* with to and back with from, or a runtime value taken with from.         *)

Int64Values ==
    {<<0, 0, 0>>, <<0, 0, 5>>, LimbsOfInt32(-5), <<0, 511, Limb - 1>>, <<0, 512, 0>>,
     <<2^9, 0, 0>>, <<2^9, 0, 1>>, <<2^9, 0, 2>>, Negated(<<2^9, 0, 1>>),
     <<2^19 - 1, Limb - 1, Limb - 1>>, <<-(2^19), 0, 0>>}

ScalarValues(T) ==
    CASE T = "int" -> {NInt(n) : n \in {0, 1, -1, 7, 2147483647, -2147483647}}
      [] T = "int64" -> {NInt64(x) : x \in Int64Values}
      [] T = "double" -> {NDouble(n) : n \in {0, 1, -3, 16777217}} \cup {NDoubleNaN}
      [] T = "float" -> {NFloat(n) : n \in {0, 1, -3, 16777216, 16777218}} \cup {NDoubleNaN}
      [] T = "bool" -> {NBool(TRUE), NBool(FALSE)}
      [] T = "string" -> {NString(""), NString("x"), NString("7"), NString("two words"),
                          NStringWithNul("a", <<"NUL", "b">>), NStringWithNul("", <<"NUL">>)}

ConvJob(kind, T, v) == [kind |-> kind, T |-> T, v |-> v]
ScalarJobs == UNION {{ConvJob("roundtrip", T, v) : v \in ScalarValues(T)} : T \in ScalarTypes}
VectorTypes == {"vector<int>", "vector<double>"}

\* Native vectors: up to two leading elements, then further elements up to one
\* below the cap, the cap, and one above.
LeadingElements == {<< >>, <<1>>, <<2, 1>>}
FurtherElements(k) ==
    {0, 1, MAX_ARRAY_LENGTH - 1 - k, MAX_ARRAY_LENGTH - k, MAX_ARRAY_LENGTH + 1 - k}
NativeVectors ==
    UNION {{NVector(el, fill) : fill \in FurtherElements(Len(el))} : el \in LeadingElements}

\* Runtime values handed to from: arrays of stored elements and holes around
\* the cap, with and without an element that does not convert, and values that
\* are no array.
StoredElements ==
    {<< >>, <<JSNumber(1)>>, <<JSNumber(2), JSNumber(1)>>, <<JSSymbol>>,
     <<JSNumber(1), JSSymbol>>, <<JSNumber(1), JSSymbol, JSNumber(3)>>,
     <<JSString("7"), JSBoolean(TRUE)>>}
ArrayLengths ==
    {0, 1, 2, 3, 4, MAX_ARRAY_LENGTH - 1, MAX_ARRAY_LENGTH, MAX_ARRAY_LENGTH + 1,
     2 * MAX_ARRAY_LENGTH}
RuntimeArrays ==
    UNION {{JSArray(len, el) : len \in {k \in ArrayLengths : k >= Len(el)}}
           : el \in StoredElements}
NonArrays == {JSNumber(3), JSString("x"), JS_UNDEFINED, JSSymbol, JSBoolean(TRUE)}

VectorJobs ==
    {ConvJob("roundtrip", T, v) : T \in VectorTypes, v \in NativeVectors}
    \cup {ConvJob("from", T, v) : T \in VectorTypes, v \in RuntimeArrays \cup NonArrays}

ConvJobs == ScalarJobs \cup VectorJobs

\* What a job gives: the runtime value from was applied to, and what from gave.
ConvOut(js, back, reads) == [js |-> js, back |-> back, reads |-> reads]
NotConverted == ConvOut(JS_UNDEFINED, Converted(FALSE, NVoid, NoException), 0)

ConvInit ==
    /\ EngineInit
    /\ comp = CompIdle
    /\ lastCall \in {[called |-> FALSE, job |-> j, out |-> NotConverted] : j \in ConvJobs}

\* from(to(v)) for a native value, from(v) for a runtime value.
To(T, v) == IF T \in ScalarTypes THEN JSConv_to(T, v) ELSE JSConv_vector_to(ElementType(T), v)
From(T, js) ==
    ConvOut(js, JSConv_from(T, js, NoException),
            IF T \in ScalarTypes THEN 0 ELSE vector_reads(ElementType(T), js))
Conversion(job) == IF job.kind = "roundtrip" THEN From(job.T, To(job.T, job.v)) ELSE From(job.T, job.v)

Convert ==
    /\ ~lastCall.called
    /\ lastCall' = [lastCall EXCEPT !.called = TRUE, !.out = Conversion(lastCall.job)]
    /\ UNCHANGED <<engineVars, runtimeVars, ghostVars, comp>>

ConvNext == Convert

ConvSpec == ConvInit /\ [][ConvNext]_vars

\* A round trip of a scalar has been made.
ScalarTripMade ==
    /\ lastCall.called
    /\ lastCall.job.kind = "roundtrip"
    /\ lastCall.job.T \in ScalarTypes

\* C23: for every scalar type and every value v of it, from(to(v)) succeeds and
\* returns v.
C23_ScalarRoundTrip ==
    ScalarTripMade => (lastCall.out.back.ok /\ lastCall.out.back.val = lastCall.job.v)


\* A conversion of a vector type has been made.
VectorConverted == lastCall.called /\ lastCall.job.T \in VectorTypes
EmptyVector == NVector(<< >>, 0)

FirstFailure(T, js) ==
    CHOOSE i \in FailingIndices(T, js) : \A j \in FailingIndices(T, js) : i <= j

\* from applied to js with element type T gave back: success with one converted
\* element per index of js, in order, or failure with an empty vector; failure
\* for a value that is no array and at the first element that does not convert.
AllOrNothing(T, js, back) ==
    /\ back.ok
       => /\ Len(back.val.el) + back.val.fill = js.n
          /\ Len(back.val.el) = Len(js.el)
          /\ \A i \in 1..Len(js.el) :
                back.val.el[i] = JSConv_scalar_from(T, js.el[i], NoException).val.n
    /\ ~back.ok => back.val = EmptyVector
    /\ js.t # "array" => (~back.ok /\ back.pending = "TypeError: expected array")
    /\ (js.t = "array" /\ js.n <= MAX_ARRAY_LENGTH)
       => /\ back.ok <=> FailingIndices(T, js) = {}
          /\ FailingIndices(T, js) # {} => back.pending = ElementError(FirstFailure(T, js))

\* C25: from for a vector type is all-or-nothing on every input.
C25_AllOrNothing ==
    VectorConverted
    => AllOrNothing(ElementType(lastCall.job.T), lastCall.out.js, lastCall.out.back)

\* An array whose second of three elements does not convert was handed to from:
\* it failed at index 1 and returned an empty vector.
C25_Witness ==
    /\ VectorConverted
    /\ lastCall.job.kind = "from"
    /\ lastCall.out.js = JSArray(3, <<JSNumber(1), JSSymbol, JSNumber(3)>>)
    /\ ~lastCall.out.back.ok
    /\ lastCall.out.back.val = EmptyVector
    /\ lastCall.out.back.pending = ElementError(1)


\* C26: compile returns success with serialized bytes and an empty message, or
\* failure with a message and no bytes; never bytes with the failure flag, and
\* never neither.
C26_BytesOrMessage ==
    comp.pc = "returned"
    => \/ /\ comp.result.success
          /\ comp.result.bytecode # NoBytes
          /\ comp.result.bytecode.valid
          /\ comp.result.error = ""
       \/ /\ ~comp.result.success
          /\ comp.result.error # ""
          /\ comp.result.bytecode = NoBytes

\* compile returned failure from its last step: the unit had compiled, with its
\* import resolved by the loader, and could not be serialized.
C26_Witness ==
    /\ comp.pc = "returned"
    /\ ~comp.result.success
    /\ comp.loads # << >>
    /\ comp.result.error = "Failed to serialize bytecode"
    /\ comp.result.bytecode = NoBytes


-----------------------------------------------------------------------------
(* The stub loader.  StubSpec compiles scripts that import the native      *)
(* module "graphics", a native module of the model, a script module and a  *)
(* name nothing defines, beside the registration of native modules.        *)

StubSources ==
    {[imp |-> n, throws |-> FALSE, def |-> "none"] : n \in {"graphics", "math", "util", "ghost"}}

StubNext ==
    \/ \E code \in StubSources : StartCompile(code)
    \/ CompileStep
    \/ Initialize
    \/ \E m \in TopLevelNames : Module(m)

StubSpec == Init /\ [][StubNext]_vars

\* compile has returned from a script that imports "graphics", for which the
\* loader made a stub.
GraphicsStubMade ==
    /\ comp.pc = "returned"
    /\ comp.code.imp = "graphics"
    /\ Len(comp.loads) = 1
    /\ comp.loads[1].def # NoModule

\* C27: the stub the loader makes for "graphics" exports the names
\* initGraphicsModule registers, and the importing script compiles.
C27_StubExportsDeclaredNames ==
    GraphicsStubMade
    => /\ comp.loads[1].def[3] = initGraphicsModule_names
       /\ "compiled" \notin comp.faults => comp.result.success


-----------------------------------------------------------------------------
(* Registration.  RegSpec follows the calls the host makes on the nodes of *)
(* the tree, on references it obtained from global() and module(), and the *)
(* host variable whose value it registers; lastCall records the last call, *)
(* the value of the host variable and, for each node, the value the host   *)
(* variable had when value() was last called there.                        *)

HostValues == {1, 2}
RegParents == {Root, <<"math">>}
RegValuePaths == {<<"math">>}
RegChildren(parent) == IF parent = Root THEN ModuleNames ELSE {"color"}
RegSources == {[imp |-> n, throws |-> FALSE, def |-> "none"] : n \in {"math", "none"}}

RegCall(op, at, name, existed, host, captured) ==
    [called |-> TRUE, op |-> op, at |-> at, name |-> name, existed |-> existed,
     host |-> host, captured |-> captured]

RegInit ==
    /\ EngineInit
    /\ comp = CompIdle
    /\ lastCall = [RegCall("none", Root, "", FALSE, 1, [p \in RegValuePaths |-> 0])
                     EXCEPT !.called = FALSE]

\* The tree changes to t by a registration call.
Registers(op, t) ==
    /\ ~crashed
    /\ \E e \in {[Cur EXCEPT !.root = t]} :
          /\ Becomes(e)
          /\ Observed(op, e, "void", FALSE, FALSE, FALSE)
    /\ UNCHANGED <<cleanupTrace, comp>>

\* parent.module(m), parent being global() or a reference module() returned.
RegModule(parent, m) ==
    /\ parent \in DOMAIN global(global_)
    /\ Registers("module", module(global(global_), parent, m))
    /\ lastCall' = RegCall("module", parent, m, Append(parent, m) \in DOMAIN global_,
                            lastCall.host, lastCall.captured)
    /\ UNCHANGED wrappersMade

\* node.func(n, f)
RegFunc(q, n) ==
    /\ q \in DOMAIN global(global_)
    /\ wrappersMade < MaxWrappers
    /\ Registers("func", func(global(global_), q, n, wrappersMade + 1))
    /\ wrappersMade' = wrappersMade + 1
    /\ lastCall' = RegCall("func", q, n, TRUE, lastCall.host, lastCall.captured)

\* node.value(n, x), x being the host variable.
RegValue(q, n) ==
    /\ q \in DOMAIN global_
    /\ Registers("value", value(global_, q, n, lastCall.host))
    /\ lastCall' = RegCall("value", q, n, TRUE, lastCall.host,
                            [lastCall.captured EXCEPT ![q] = lastCall.host])
    /\ UNCHANGED wrappersMade

\* The host assigns to the variable it registered.
HostAssign(c) ==
    /\ c # lastCall.host
    /\ lastCall' = [lastCall EXCEPT !.called = TRUE, !.op = "assign", !.host = c]
    /\ UNCHANGED <<engineVars, runtimeVars, ghostVars, comp>>

\* An evaluation; lastCall records that it came after the registrations.
RegEvaluate(s) ==
    /\ ~crashed
    /\ \E o \in runFileInline(Cur, s) : Took("runFileInline", o)
    /\ lastCall' = [lastCall EXCEPT !.called = TRUE, !.op = "runFile"]
    /\ UNCHANGED <<wrappersMade, cleanupTrace, comp>>

RegNext ==
    \/ Initialize
    \/ \E parent \in RegParents : \E m \in RegChildren(parent) : RegModule(parent, m)
    \/ \E n \in FuncNames : RegFunc(<<"math">>, n)
    \/ \E q \in RegValuePaths, n \in ValueNames : RegValue(q, n)
    \/ \E c \in HostValues : HostAssign(c)
    \/ \E s \in RegSources : RegEvaluate(s)

RegSpec == RegInit /\ [][RegNext]_vars

\* The tree a registration call starts from, the root made on first use.
TreeBefore == global(global_)

\* C28: module(name) on a node that has a child of that name leaves the tree as
\* it is, the child keeping its functions, values and children; on a node that
\* has none it adds one empty child under that name and changes nothing else.
\* The children of a node are keyed by name, so there is one per name at most.
C28_ModuleIdempotent ==
    [][\A parent \in RegParents : \A m \in RegChildren(parent) :
          (lastCall'.op = "module" /\ RegModule(parent, m))
          => /\ Append(parent, m) \in DOMAIN TreeBefore => global_' = TreeBefore
             /\ Append(parent, m) \notin DOMAIN TreeBefore
                => /\ DOMAIN global_' = DOMAIN TreeBefore \cup {Append(parent, m)}
                   /\ global_'[Append(parent, m)] = EmptyNode
                   /\ \A q \in DOMAIN TreeBefore : global_'[q] = TreeBefore[q]]_vars

\* module("math") was called on the root when "math" existed with a function, a
\* constant and the child "color"; all are still there.
C28_Witness ==
    /\ lastCall.called
    /\ lastCall.op = "module"
    /\ lastCall.at = Root
    /\ lastCall.name = "math"
    /\ lastCall.existed
    /\ global_[<<"math">>].funcs["f"] # 0
    /\ global_[<<"math">>].values["K"] # 0
    /\ NestedPath \in DOMAIN global_


\* The constant the host variable held when value() was last called on "math".
Captured == lastCall.captured[<<"math">>]

\* C29: every install that follows value(name, x) materializes the value x had
\* when value() was called, whatever the host assigned to x since: the eager
\* install below the global object, and the binding of the native module's
\* exports.
C29_CapturedAtRegistration ==
    [][\A s \in RegSources :
          (lastCall'.op = "runFile" /\ Captured # 0 /\ RegEvaluate(s) /\ ~crashed')
          => /\ (~installed_ /\ installed_')
                => childObjs'[<<"math">>]["K"] = creator(Captured)
             /\ (moduleExports["math"].state = "none" /\ moduleExports'["math"].state = "bound")
                => moduleExports'["math"].graph[<< >>]["K"] = creator(Captured)]_vars

\* The host registered its variable on "math" and assigned to it afterwards;
\* the evaluation that followed installed the module both ways with the value
\* of the registration.
C29_Witness ==
    /\ lastCall.called
    /\ lastCall.op = "runFile"
    /\ Captured # 0
    /\ lastCall.host # Captured
    /\ installed_
    /\ <<"math">> \in DOMAIN childObjs
    /\ childObjs[<<"math">>]["K"] = creator(Captured)
    /\ moduleExports["math"].state = "bound"
    /\ moduleExports["math"].graph[<< >>]["K"] = creator(Captured)


\* C30: the evaluation that makes the global install leaves below the global
\* object what the tree held when it started; from then on no registration on
\* the root or below it, and no later evaluation, changes the global object or
\* the objects below it (the scripts of RegSpec assign no global themselves).
C30_RegistrationEndsAtInstall ==
    [][/\ (installed_ /\ ~crashed')
          => (globalObj' = globalObj /\ childObjs' = childObjs)
       /\ (~installed_ /\ installed_' /\ ~IsNull(global_) /\ ~crashed')
          => /\ globalObj' = installToObject(globalObj, global_)
             /\ \A q \in DOMAIN global_ \ {Root} :
                   /\ q \in DOMAIN childObjs'
                   /\ \A n \in FuncNames \cup ValueNames : childObjs'[q][n] = Registered(q, n)
             /\ DOMAIN childObjs' = DOMAIN global_ \ {Root}]_vars

\* "math" was installed without a constant; the host registered one on it and
\* the child "color" afterwards, and evaluated again: the object below the
\* global object has neither.
C30_Witness ==
    /\ lastCall.called
    /\ lastCall.op = "runFile"
    /\ installed_
    /\ ~crashed
    /\ Captured # 0
    /\ NestedPath \in DOMAIN global_
    /\ <<"math">> \in DOMAIN childObjs
    /\ childObjs[<<"math">>]["K"] = AbsentProp
    /\ childObjs[<<"math">>]["color"] = AbsentProp
    /\ NestedPath \notin DOMAIN childObjs


----------------------------------------------------------------------------
\* C37: a call of runFile or runBytecode that makes the global install finds
\* the root module node in place, also on an engine on which global() was
\* never called: the install walks an empty node, and the call returns without
\* a fault.
C37_RootExistsAtInstall ==
    [][(~installed_ /\ installed_') => (~IsNull(global_) /\ ~crashed')]_vars

----------------------------------------------------------------------------
\* The values a runBytecode call may hold.
UnitValues == {ObjVal, ResultVal, NamespaceVal}

\* C38: a runBytecode call that deserialized its unit returns, on each of its
\* exits, with the unit, the evaluation result and the module namespace freed
\* once each if it obtained them, and with nothing freed twice.
C38_ReleasedOnce ==
    [][\A b \in Bytecodes :
          (lastOp'.op = "runBytecode" /\ b.valid /\ ~crashed' /\ RunBytecode(b)) =>
             \A v \in UnitValues :
                TimesFreed(lastOp'.freed, v) = IF v \in lastOp'.created THEN 1 ELSE 0]_vars

----------------------------------------------------------------------------
\* compile has returned from a script with an import, no library call of its
\* own having failed, beside an engine whose hook can be asked.
ImportCompiled ==
    /\ comp.pc = "returned"
    /\ Len(comp.loads) = 1
    /\ comp.faults = {}
    /\ rt_ # NULLPTR
    /\ ~cleanedUp_

\* C36: compileModuleLoader and loadModule classify an import name the same
\* way: a name loadModule resolves to a registered native module gets a stub
\* (not the script file of that name), a name loadModule resolves to a script
\* file is compiled from the file, and a name loadModule rejects as not found
\* does not compile.
C36_LoadersAgree ==
    ImportCompiled =>
        /\ HookAnswer(comp.code.imp).def[1] = "native" => comp.loads[1].def[1] = "stub"
        /\ HookAnswer(comp.code.imp).def[1] = "script"
              => comp.loads[1].def = ScriptDef(comp.code.imp)
        /\ HookAnswer(comp.code.imp).exc = "ReferenceError" => ~comp.result.success

----------------------------------------------------------------------------
(* The embedded payload (src/src/core/Embed.hpp; main.cpp carries the same *)
(* code inline).  A file is the sequence of its bytes.                     *)

\* "LOVEJSBC"
MAGIC == <<76, 79, 86, 69, 74, 83, 66, 67>>
FOOTER_SIZE == 16

\* Footer is written and read through the object representation of the
\* struct: its two uint32_t fields are laid out in the byte order of the host.
ByteOrders == {"little", "big"}

\* static_cast<uint32_t>(n), as the four bytes of its object representation.
uint32_bytes(order, n) ==
    IF order = "little"
    THEN <<n % 256, (n \div 256) % 256, (n \div 65536) % 256, (n \div 16777216) % 256>>
    ELSE <<(n \div 16777216) % 256, (n \div 65536) % 256, (n \div 256) % 256, n % 256>>

\* The uint32_t four bytes hold.
uint32_value(order, bs) ==
    IF order = "little"
    THEN bs[1] + 256 * bs[2] + 65536 * bs[3] + 16777216 * bs[4]
    ELSE bs[4] + 256 * bs[3] + 65536 * bs[2] + 16777216 * bs[1]

\* struct Footer { magic, bytecodeSize, reserved } as the bytes written.
Footer(order, bytecodeSize) ==
    MAGIC \o uint32_bytes(order, bytecodeSize) \o uint32_bytes(order, 0)

\* The fields of the footer that ends a file of at least FOOTER_SIZE bytes.
Footer_magic(file) == SubSeq(file, Len(file) - FOOTER_SIZE + 1, Len(file) - FOOTER_SIZE + 8)
Footer_bytecodeSize(order, file) ==
    uint32_value(order, SubSeq(file, Len(file) - FOOTER_SIZE + 9, Len(file) - FOOTER_SIZE + 12))
Footer_reserved(order, file) ==
    uint32_value(order, SubSeq(file, Len(file) - FOOTER_SIZE + 13, Len(file)))

\* seekg(offset) and read(n) on a stream over file.  A seek before the start
\* of the file fails, the read that follows stores nothing, and the buffer
\* keeps the zeros it was constructed with.
istream_read(file, offset, n) ==
    IF offset < 0 \/ offset + n > Len(file)
    THEN [i \in 1..n |-> 0]
    ELSE SubSeq(file, offset + 1, offset + n)

\* What readEmbeddedBytecode gives: the payload (empty when there is none) and
\* the offsets, from the start of the file, its seeks went to.
Embedded(bytecode, seeks) == [bytecode |-> bytecode, seeks |-> seeks]

\* The size check that accepts everything up to the whole file.
readEmbeddedBytecode_valid_WholeFile(bytecodeSize, fileSize) ==
    ~(bytecodeSize = 0 \/ bytecodeSize > fileSize)

\* The size check at Embed.hpp:126.
readEmbeddedBytecode_valid(bytecodeSize, fileSize) ==
    ~(bytecodeSize = 0 \/ bytecodeSize > fileSize - FOOTER_SIZE)

readEmbeddedBytecode_payload(order, file, bytecodeSize) ==
    IF ~readEmbeddedBytecode_valid(bytecodeSize, Len(file))
    THEN Embedded(<< >>, {Len(file) - FOOTER_SIZE})
    ELSE Embedded(istream_read(file, Len(file) - (FOOTER_SIZE + bytecodeSize), bytecodeSize),
                  {Len(file) - FOOTER_SIZE, Len(file) - (FOOTER_SIZE + bytecodeSize)})

\* Embed::readEmbeddedBytecode on the running executable.
readEmbeddedBytecode(order, file) ==
    IF Len(file) < FOOTER_SIZE THEN Embedded(<< >>, {})
    ELSE IF Footer_magic(file) # MAGIC THEN Embedded(<< >>, {Len(file) - FOOTER_SIZE})
    ELSE readEmbeddedBytecode_payload(order, file, Footer_bytecodeSize(order, file))

\* What getCleanExecutable gives: "data" with the image, or "length_error"
\* when resize was asked for more than a vector can hold and threw.
\* originalSize is the size_t the subtraction gave: its value, or, when the
\* subtraction wrapped, how far below 2^64 it lies.
Clean(status, data, wrapped, originalSize) ==
    [status |-> status, data |-> data, wrapped |-> wrapped, originalSize |-> originalSize]

\* exeData.size() - FOOTER_SIZE - bytecodeSize in size_t, then resize.
getCleanExecutable_resize(exeData, bytecodeSize) ==
    IF bytecodeSize > Len(exeData) - FOOTER_SIZE
    THEN Clean("length_error", << >>, TRUE, bytecodeSize - (Len(exeData) - FOOTER_SIZE))
    ELSE Clean("data", SubSeq(exeData, 1, Len(exeData) - FOOTER_SIZE - bytecodeSize), FALSE,
               Len(exeData) - FOOTER_SIZE - bytecodeSize)

\* The executable taken as it is, whatever it ends with.
getCleanExecutable_AsIs(order, exeData) == Clean("data", exeData, FALSE, Len(exeData))

\* Embed::getCleanExecutable: the running executable without the footer it
\* ends with and without the bytes that footer counts.
getCleanExecutable(order, exeData) ==
    IF Len(exeData) >= FOOTER_SIZE /\ Footer_magic(exeData) = MAGIC
    THEN getCleanExecutable_resize(exeData, Footer_bytecodeSize(order, exeData))
    ELSE Clean("data", exeData, FALSE, Len(exeData))

\* What createEmbeddedExecutable gives: "written" with the bytes of the output
\* file, "false" when it returned false, "terminate" when the exception of
\* resize left it (no caller catches it: std::terminate ends the process).
Written(status, file) == [status |-> status, file |-> file]

\* The output with the footer ahead of the payload.
createEmbeddedExecutable_output_FooterFirst(order, exeData, bytecode) ==
    exeData \o Footer(order, Len(bytecode)) \o bytecode

\* outputData: the image, the payload, the footer (Embed.hpp:170-183).
createEmbeddedExecutable_output(order, exeData, bytecode) ==
    exeData \o bytecode \o Footer(order, Len(bytecode))

createEmbeddedExecutable_from(order, clean, bytecode) ==
    IF clean.status = "length_error" THEN Written("terminate", << >>)
    ELSE IF clean.data = << >> THEN Written("false", << >>)
    ELSE Written("written", createEmbeddedExecutable_output(order, clean.data, bytecode))

\* Embed::createEmbeddedExecutable, run by the executable exe.
createEmbeddedExecutable(order, exe, bytecode) ==
    createEmbeddedExecutable_from(order, getCleanExecutable(order, exe), bytecode)

(* The specification of the embed step.  The running executable is an image *)
(* a linker produced, as it is or with bytes appended to it; `embed` writes *)
(* a new executable from it, which may be launched in turn and asked for    *)
(* its payload or for a further embed.                                      *)

\* Executables launched in one behaviour after the first.
MaxLaunches == 2

\* Images as a linker leaves them: two shorter than a footer, one longer.
BaseImages == {<<1>>, <<1, 2>>, [i \in 1..18 |-> 3]}

\* Compiled units handed to `embed` (cmdEmbed refuses an empty file).
Payloads == {<<4>>, <<5, 6>>, <<7, 8, 9>>}

\* MAGIC with its last byte changed.
ForeignMagic == <<76, 79, 86, 69, 74, 83, 66, 68>>

\* What an executable may carry after its image: nothing, a payload with its
\* footer, a footer that counts no byte, a footer that counts five bytes or
\* more than any file holds, a footer with another magic.
Tails(order) ==
    {<< >>, Footer(order, 0), <<9>> \o Footer(order, 5),
     MAGIC \o <<0, 0, 0, 127>> \o <<0, 0, 0, 0>>,
     MAGIC \o <<127, 0, 0, 0>> \o <<0, 0, 0, 0>>,
     <<4>> \o ForeignMagic \o uint32_bytes(order, 1) \o uint32_bytes(order, 0)}
    \cup {b \o Footer(order, Len(b)) : b \in Payloads}

NotRead == Embedded(<< >>, {})
NotWritten == Written("none", << >>)

EmbedState(op, order, exe, payload, out, read, launches) ==
    [called |-> op # "none", op |-> op, order |-> order, exe |-> exe, payload |-> payload,
     out |-> out, read |-> read, launches |-> launches]

EmbedInit ==
    /\ EngineInit
    /\ comp = CompIdle
    /\ \E order \in ByteOrders, image \in BaseImages :
          \E tail \in Tails(order) :
             lastCall = EmbedState("none", order, image \o tail, << >>, NotWritten, NotRead, 0)

\* `lovejs embed unit.qbc` run by the executable: cmdEmbed.
CmdEmbed(bytecode) ==
    /\ lastCall.out.status # "terminate"
    /\ lastCall' = [lastCall EXCEPT !.called = TRUE, !.op = "embed", !.payload = bytecode,
                       !.out = createEmbeddedExecutable(lastCall.order, lastCall.exe, bytecode)]
    /\ UNCHANGED <<engineVars, runtimeVars, ghostVars, comp>>

\* The executable started without arguments: cmdRunBundled looks for a payload.
CmdRunBundled ==
    /\ lastCall.out.status # "terminate"
    /\ lastCall' = [lastCall EXCEPT !.called = TRUE, !.op = "read",
                       !.read = readEmbeddedBytecode(lastCall.order, lastCall.exe)]
    /\ UNCHANGED <<engineVars, runtimeVars, ghostVars, comp>>

\* The file the last embed wrote is launched: it is the running executable now.
Launch ==
    /\ lastCall.out.status = "written"
    /\ lastCall.launches < MaxLaunches
    /\ lastCall' = EmbedState("launch", lastCall.order, lastCall.out.file, << >>, NotWritten,
                              NotRead, lastCall.launches + 1)
    /\ UNCHANGED <<engineVars, runtimeVars, ghostVars, comp>>

EmbedNext ==
    \/ \E bytecode \in Payloads : CmdEmbed(bytecode)
    \/ CmdRunBundled
    \/ Launch

EmbedSpec == EmbedInit /\ [][EmbedNext]_vars


\* The last step was an embed that wrote its output file.
EmbedWrote == lastCall.op = "embed" /\ lastCall.out.status = "written"

\* The bytes of file from position from (counted from 1) on, n of them.
BytesAt(file, from, n) == SubSeq(file, from, from + n - 1)

\* C31: the file an embed of the non-empty payload b writes is the clean
\* executable, then b, then sixteen bytes: the magic, the length of b as a
\* 4-byte unsigned number, four zero bytes; and readEmbeddedBytecode on that
\* file gives b.
C31_EmbedLayoutAndReadBack ==
    EmbedWrote =>
        LET b == lastCall.payload
            clean == getCleanExecutable(lastCall.order, lastCall.exe).data
            file == lastCall.out.file
        IN /\ Len(file) = Len(clean) + Len(b) + 16
           /\ BytesAt(file, 1, Len(clean)) = clean
           /\ BytesAt(file, Len(clean) + 1, Len(b)) = b
           /\ BytesAt(file, Len(clean) + Len(b) + 1, 8) = MAGIC
           /\ uint32_value(lastCall.order, BytesAt(file, Len(clean) + Len(b) + 9, 4)) = Len(b)
           /\ BytesAt(file, Len(clean) + Len(b) + 13, 4) = <<0, 0, 0, 0>>
           /\ readEmbeddedBytecode(lastCall.order, file).bytecode = b

\* An embed of a three-byte payload wrote its file from an executable that
\* carried none.
C31_Witness ==
    /\ EmbedWrote
    /\ Len(lastCall.payload) = 3
    /\ lastCall.exe \in BaseImages
    /\ readEmbeddedBytecode(lastCall.order, lastCall.out.file).bytecode = lastCall.payload

\* The executable was asked for its payload.
PayloadRead == lastCall.op = "read"

\* The length the last sixteen bytes of the executable record.
RecordedLength == Footer_bytecodeSize(lastCall.order, lastCall.exe)

\* The executable gives no payload: it is shorter than a footer, does not end
\* with one, or ends with one whose length is zero or more than precedes it.
NoPayload ==
    \/ Len(lastCall.exe) < 16
    \/ BytesAt(lastCall.exe, Len(lastCall.exe) - 15, 8) # MAGIC
    \/ RecordedLength = 0
    \/ RecordedLength > Len(lastCall.exe) - 16

\* C32: readEmbeddedBytecode gives nothing in each of the four cases, and in
\* every other case the recorded number of bytes that end where the footer
\* starts; none of its seeks goes before the start of the file.
C32_ReadClassifies ==
    PayloadRead =>
        /\ NoPayload => lastCall.read.bytecode = << >>
        /\ ~NoPayload =>
              lastCall.read.bytecode =
                 BytesAt(lastCall.exe, Len(lastCall.exe) - 16 - RecordedLength + 1, RecordedLength)
        /\ \A offset \in lastCall.read.seeks : offset >= 0

\* A payload was read from an executable an embed wrote.
C32_Witness ==
    /\ PayloadRead
    /\ lastCall.launches > 0
    /\ ~NoPayload
    /\ lastCall.read.bytecode \in Payloads

\* A footer that counts more bytes than precede it was read as no payload.
C32_WitnessRejected ==
    /\ PayloadRead
    /\ Len(lastCall.exe) >= 16
    /\ BytesAt(lastCall.exe, Len(lastCall.exe) - 15, 8) = MAGIC
    /\ RecordedLength > Len(lastCall.exe) - 16
    /\ lastCall.read.bytecode = << >>

\* The payload the executable carries, as cmdRunBundled would find it.
Carried == readEmbeddedBytecode(lastCall.order, lastCall.exe).bytecode

\* The executable without the payload it carries and without its footer.
Original == BytesAt(lastCall.exe, 1, Len(lastCall.exe) - 16 - Len(Carried))

\* C33: an embed run by an executable that carries a payload writes the
\* original bytes, the new payload and one footer, so that the output carries
\* the new payload alone; an embed of the same payload run by the output
\* writes the same bytes again.
C33_ReembedReplaces ==
    (lastCall.op = "embed" /\ Carried # << >>) =>
        /\ lastCall.out.status = "written"
        /\ lastCall.out.file = Original \o lastCall.payload \o Footer(lastCall.order, Len(lastCall.payload))
        /\ readEmbeddedBytecode(lastCall.order, lastCall.out.file).bytecode = lastCall.payload
        /\ readEmbeddedBytecode(lastCall.order, Original).bytecode = << >>
        /\ createEmbeddedExecutable(lastCall.order, lastCall.out.file, lastCall.payload) = lastCall.out
        /\ Carried = lastCall.payload => lastCall.out.file = lastCall.exe

\* An executable an embed wrote was launched and embedded the payload it
\* carries: its output is the executable itself, byte for byte.
C33_Witness ==
    /\ lastCall.op = "embed"
    /\ lastCall.launches > 0
    /\ Carried = lastCall.payload
    /\ lastCall.out.status = "written"
    /\ lastCall.out.file = lastCall.exe

\* C39: the original size an embed computes when it strips a footer never
\* wraps around: a footer that counts more bytes than precede it does not
\* resize the image.
C39_NeverUnderflows ==
    lastCall.op = "embed" =>
        /\ ~getCleanExecutable(lastCall.order, lastCall.exe).wrapped
        /\ lastCall.out.status # "terminate"


----------------------------------------------------------------------------
(* The frame loop (src/src/core/GameLoop.hpp): setup, and the callbacks the *)
(* application framework makes: init once, then frames and events, then     *)
(* cleanup.  The loop's static members and what a harness would record of   *)
(* its dispatches are held in one record.                                   *)

\* Frames followed in one behaviour.
MaxFrames == 2

\* What the main script binds to a callback name: nothing, a value that is no
\* function, a function that returns, a function that throws.
CallbackKinds == {"absent", "script_const", "script_ok", "script_throw"}
MainModules == [CallbackNames -> CallbackKinds]

\* The text loadMainModule builds around the main script: it imports the
\* script and assigns each callback it exports to the global object.  A main
\* script that fails to load makes the loader throw.
LoaderCode(main) == [imp |-> "none", throws |-> FALSE, def |-> "loader", main |-> main]
FailingLoaderCode == [imp |-> "none", throws |-> TRUE, def |-> "none"]
LoaderCodes == {LoaderCode(main) : main \in MainModules} \cup {FailingLoaderCode}

\* Input events: a key pressed, the same as an auto-repeat, any event the
\* switch of event_cb has no case for.
Events == {"KEY_DOWN", "KEY_DOWN_repeat", "RESIZED"}

\* renderer_ (set or null), loadCalled_, where the application is, the steps
\* the last handler took in their order, the dispatches of load since setup,
\* the frames made, and whether a dispatch of an earlier handler failed.
LoopState(renderer, loadCalled, phase) ==
    [called |-> phase # "start", op |-> "none", renderer |-> renderer, loadCalled |-> loadCalled,
     phase |-> phase, log |-> << >>, loads |-> 0, frames |-> 0, failedBefore |-> FALSE]

Taken(ev, ret) == [ev |-> ev, ret |-> ret]
Failed(log) == \E i \in 1..Len(log) : log[i].ret = "false"

\* The engine and the loop together, as a handler finds and leaves them.
Both(e, g) == [eng |-> e, g |-> g]

\* A handler is entered: the record of the last handler's steps is closed.
Entered(st, op) ==
    [st EXCEPT !.g.op = op, !.g.called = TRUE, !.g.log = << >>,
               !.g.failedBefore = @ \/ Failed(st.g.log)]

\* A call on the renderer.
Rendered(st, ev) == [st EXCEPT !.g.log = Append(@, Taken(ev, "void"))]

\* A variant of the dispatch in which a failed call ends the process.
callCallback_Fatal(st, name, argc) ==
    {Both([o.eng EXCEPT !.crashed = @ \/ o.ret # "true"],
          [st.g EXCEPT !.log = Append(@, Taken(name, o.ret)),
                       !.loads = @ + (IF name = "load" THEN 1 ELSE 0)])
     : o \in callGlobal(st.eng, name, argc)}

\* GameLoop::callCallback: JSEngine::callGlobal(name, args...), its result dropped.
callCallback(st, name, argc) ==
    {Both(o.eng, [st.g EXCEPT !.log = Append(@, Taken(name, o.ret)),
                              !.loads = @ + (IF name = "load" THEN 1 ELSE 0)])
     : o \in callGlobal(st.eng, name, argc)}

\* A variant that leaves loadCalled_ as it is.
callLoadCallback_called_Unset(g) == g

\* loadCalled_ = true;
callLoadCallback_called(g) == [g EXCEPT !.loadCalled = TRUE]

\* GameLoop::callLoadCallback, and the same three lines at the end of init_cb.
callLoadCallback(st) ==
    IF st.g.loadCalled THEN {st}
    ELSE {[s EXCEPT !.g = callLoadCallback_called(@)] : s \in callCallback(st, "load", 0)}

\* initAllModules: global().func("print", ...) and the module "graphics",
\* followed as the function "f" on the root and the module "math".
initAllModules(e, w) == [e EXCEPT !.root = module(func(global(@), Root, "f", w), Root, "math")]

\* exit(-1)
Exited(st) == [st EXCEPT !.g.phase = "exited"]

\* loadJSFile past the test of the file: loadMainModule, then callLoadCallback.
loadJSFile_loaded(st, o) ==
    IF o.ret # "true" THEN {Exited(Both(o.eng, st.g))}
    ELSE callLoadCallback(Both(o.eng, st.g))

\* GameLoop::loadJSFile.
loadJSFile(st, jsFile, code) ==
    IF jsFile \notin ReadableFiles THEN {Exited(st)}
    ELSE UNION {loadJSFile_loaded(st, o) : o \in runFileInline(st.eng, code)}

\* GameLoop::setup: initializeRenderer, initializeModules, loadJSFile.
setup(st, id, w, jsFile, code) ==
    {[s EXCEPT !.g.phase = IF @ = "exited" THEN @ ELSE "configured"]
     : s \in loadJSFile(Both(initAllModules(initialize(st.eng, id), w),
                             [st.g EXCEPT !.renderer = TRUE]),
                        jsFile, code)}

\* GameLoop::init_cb.
init_cb(st) ==
    IF ~st.g.renderer THEN {Rendered(st, "sg_setup")}
    ELSE callLoadCallback(Rendered(Rendered(st, "sg_setup"), "setupPipeline"))

\* frame_cb from beginFrame on.
frame_cb_render(st) ==
    {Rendered(s, "endFrame") : s \in callCallback(Rendered(st, "beginFrame"), "draw", 0)}

\* GameLoop::frame_cb.
frame_cb(st) ==
    IF ~st.g.renderer THEN {st}
    ELSE UNION {frame_cb_render(s) : s \in callCallback(st, "update", 1)}

\* GameLoop::event_cb.
event_cb(st, event) ==
    IF event = "KEY_DOWN" THEN callCallback(st, "keypressed", 1) ELSE {st}

\* GameLoop::cleanup_cb: sg_shutdown, JSEngine::cleanup, the statics reset.
cleanup_cb(st) ==
    Both(IF cleanup_done(st.eng) THEN st.eng ELSE LastEng(cleanup_run(st.eng), st.eng),
         [Rendered(st, "sg_shutdown").g EXCEPT !.renderer = FALSE, !.loadCalled = FALSE,
                                               !.phase = "ended"])

LoopInit ==
    /\ EngineInit
    /\ comp = CompIdle
    /\ lastCall = LoopState(FALSE, FALSE, "start")

\* The handler left the engine and the loop as st has them.
LoopBecomes(op, st) ==
    /\ Becomes(st.eng)
    /\ Observed(op, st.eng, "void", TRUE, FALSE, FALSE)
    /\ lastCall' = st.g

\* main: cmdRun calls GameLoop::setup(jsFile).
Setup(jsFile, code) ==
    /\ lastCall.phase = "start"
    /\ \E st \in setup(Entered(Both(Cur, lastCall), "setup"), rtCreated + 1, wrappersMade + 1,
                       jsFile, code) :
          LoopBecomes("setup", st)
    /\ wrappersMade' = wrappersMade + 1
    /\ UNCHANGED <<cleanupTrace, comp>>

\* sapp_run: the framework calls init_cb once.
InitCb ==
    /\ lastCall.phase = "configured"
    /\ \E st \in init_cb(Entered(Both(Cur, lastCall), "init_cb")) :
          LoopBecomes("init_cb", [st EXCEPT !.g.phase = "running"])
    /\ UNCHANGED <<wrappersMade, cleanupTrace, comp>>

FrameCb ==
    /\ lastCall.phase = "running"
    /\ ~crashed
    /\ lastCall.frames < MaxFrames
    /\ \E st \in frame_cb(Entered(Both(Cur, lastCall), "frame_cb")) :
          LoopBecomes("frame_cb", [st EXCEPT !.g.frames = @ + 1])
    /\ UNCHANGED <<wrappersMade, cleanupTrace, comp>>

EventCb(event) ==
    /\ lastCall.phase = "running"
    /\ ~crashed
    /\ \E st \in event_cb(Entered(Both(Cur, lastCall), "event_cb"), event) :
          LoopBecomes("event_cb", st)
    /\ UNCHANGED <<wrappersMade, cleanupTrace, comp>>

CleanupCb ==
    /\ lastCall.phase = "running"
    /\ ~crashed
    /\ LoopBecomes("cleanup_cb", cleanup_cb(Entered(Both(Cur, lastCall), "cleanup_cb")))
    /\ cleanupTrace' = [i \in 1..Len(cleanup_run(Cur)) |-> Snapshot(cleanup_run(Cur)[i])]
    /\ UNCHANGED <<wrappersMade, comp>>

LoopNext ==
    \/ \E jsFile \in RunPaths, code \in LoaderCodes : Setup(jsFile, code)
    \/ InitCb
    \/ FrameCb
    \/ \E event \in Events : EventCb(event)
    \/ CleanupCb

LoopSpec == LoopInit /\ [][LoopNext]_vars

\* The application is between the return of setup and the cleanup callback.
LoopLive == lastCall.phase \in {"configured", "running"}

\* C34: from the return of setup to the cleanup callback the load callback has
\* been dispatched at most once: the call at the end of setup makes the call
\* at the end of init_cb do nothing.
C34_LoadDispatchedOnce ==
    /\ LoopLive => lastCall.loads <= 1
    /\ (LoopLive /\ lastCall.op = "init_cb") =>
          /\ lastCall.loads = 1
          /\ \A i \in 1..Len(lastCall.log) : lastCall.log[i].ev # "load"

\* init_cb has run after a setup that dispatched load: it dispatched nothing.
C34_Witness ==
    /\ lastCall.op = "init_cb"
    /\ lastCall.phase = "running"
    /\ lastCall.loadCalled
    /\ lastCall.loads = 1
    /\ lastCall.log = <<Taken("sg_setup", "void"), Taken("setupPipeline", "void")>>

\* The steps of a frame, in their order, whatever the dispatches returned.
FrameSteps(log) == [i \in 1..Len(log) |-> log[i].ev]

\* C35: every frame calls update, beginFrame, draw and endFrame in this order;
\* a dispatch that fails (the function is absent, not callable, or throws)
\* stops nothing: the frame is completed, the process goes on, and the frames
\* and events that follow are dispatched in full.
C35_FrameOrderNonFatal ==
    /\ lastCall.op = "frame_cb" =>
          /\ FrameSteps(lastCall.log) = <<"update", "beginFrame", "draw", "endFrame">>
          /\ lastCall.phase = "running"
          /\ ~crashed
    /\ (lastCall.op = "event_cb" /\ lastCall.log # << >>) =>
          /\ FrameSteps(lastCall.log) = <<"keypressed">>
          /\ lastCall.phase = "running"
          /\ ~crashed
    /\ lastCall.phase = "running" => (~crashed /\ ctx_ # NULLPTR /\ ~cleanedUp_)

\* A frame whose update threw and whose draw is missing was completed, and
\* the frame after it was dispatched in full, its update failing again.
C35_Witness ==
    /\ lastCall.op = "frame_cb"
    /\ lastCall.frames = 2
    /\ lastCall.failedBefore
    /\ globalObj["update"] = "script_throw"
    /\ globalObj["draw"] = "absent"
    /\ lastCall.log = <<Taken("update", "false"), Taken("beginFrame", "void"),
                        Taken("draw", "false"), Taken("endFrame", "void")>>

====
